---- MODULE Spec2Model ----
(***************************************************************************)
(* A model of the declaration-lowering and symbol-linkage layer of         *)
(* lib/IRGen/GenDecl.cpp: the per-module artifact caches (GlobalFuncs,     *)
(* GlobalVars), the symbol creation helpers of LinkInfo and the linkage    *)
(* policy LinkInfo::get.                                                   *)
(*                                                                         *)
(* The IR module is a table of symbols.  A symbol is identified by its     *)
(* position in syms (the model's stand-in for the llvm::GlobalValue        *)
(* pointer); an erased symbol stays in the table with live = FALSE so that *)
(* the history of constructions can be read off a state.                   *)
(***************************************************************************)
EXTENDS Integers, Sequences, FiniteSets, TLC

VARIABLES
  syms,           \* IGM.Module: the symbols, by identity
  GlobalFuncs,    \* IRGenModule::GlobalFuncs : key -> symbol (0 = null)
  GlobalVars,     \* IRGenModule::GlobalVars  : key -> symbol (0 = null)
  handles,        \* the values handed back to callers and held by the IR
  hadError,       \* IGM.error was called
  assertViolated, \* the condition of the assert at GenDecl.cpp:1023 was false
  ndebug,         \* the build compiles assert() away
  last,           \* the request handled by the last step and what it did
  entity,         \* linkage policy: the entity LinkInfo::get is applied to
  info,           \* linkage policy: the LinkInfo it produced ("none" before)
  value,          \* accessor types: the ValueDecl the accessors belong to
  getterType,     \* accessor types: the FormalType getTypeOfGetter returned
  setterType,     \* accessor types: the FormalType getTypeOfSetter returned
  emitted,        \* dispatch: the emitters called so far, in order
  ObjCCategories, \* IRGenModule::ObjCCategories
  ObjCCategoryDecls, \* IRGenModule::ObjCCategoryDecls
  DebugInfo,      \* IRGenModule::DebugInfo is set
  unreachableHit, \* an llvm_unreachable was reached
  dispatched,     \* dispatch: the declaration handled last and what was done
  metadata,       \* the last getAddrOfTypeMetadata request and its address
  ObjCClasses,    \* IRGenModule::ObjCClasses
  LLVMUsed,       \* IRGenModule::LLVMUsed
  Functions,      \* IGM.Module: the functions of the synthesis passes
  Globals,        \* IGM.Module: the arrays of the synthesis passes, in order
  Opts,           \* IRGenModule::ObjCInterop and Opts.UseJIT
  pass,           \* the synthesis pass run last and what it found
  GlobalStrings,  \* IRGenModule::GlobalStrings
  StringGlobals,  \* IGM.Module: the globals made for strings, in order
  asked,          \* the strings asked for and the addresses returned
  ExtendedNominal, \* ExtensionDecl::ExtendedNominal of each extension
  LazySemanticInfo, \* LazySemanticInfo of each class and protocol
  lookup          \* the request function called last and what it saw

cacheVars == <<syms, GlobalFuncs, GlobalVars, handles, hadError,
               assertViolated, ndebug, last>>
linkVars == <<entity, info>>
accessorVars == <<value, getterType, setterType>>
dispatchVars == <<emitted, ObjCCategories, ObjCCategoryDecls, DebugInfo,
                  unreachableHit, dispatched>>
unitVars == <<ObjCClasses, LLVMUsed, Functions, Globals, Opts, pass>>
stringVars == <<GlobalStrings, StringGlobals, asked>>
lookupVars == <<ExtendedNominal, LazySemanticInfo, lookup>>
vars == <<syms, GlobalFuncs, GlobalVars, handles, hadError,
          assertViolated, ndebug, last, entity, info,
          value, getterType, setterType,
          emitted, ObjCCategories, ObjCCategoryDecls, DebugInfo,
          unreachableHit, dispatched, metadata,
          ObjCClasses, LLVMUsed, Functions, Globals, Opts, pass,
          GlobalStrings, StringGlobals, asked,
          ExtendedNominal, LazySemanticInfo, lookup>>

----------------------------------------------------------------------------
(* Bounds of the model.                                                     *)

\* symbols the module ever holds (pre-existing ones included)
MaxSyms == 4
\* symbols present in the module before the first request
MaxForeign == 2
\* depth of a declaration-context chain below the module context
MaxCtxDepth == 2

----------------------------------------------------------------------------
(* Declarations, types and link entities (the inputs of the linkage policy) *)

\* DeclContextKind, as enumerated by the switch of addOwnerArgument; Module
\* and FileUnit are the module boundary and the file below it.
LocalContextKinds ==
  {"AbstractClosureExpr", "TopLevelCodeDecl", "AbstractFunctionDecl", "Initializer"}
TypeContextKinds == {"ExtensionDecl", "NominalTypeDecl"}
InnerContextKinds == LocalContextKinds \cup TypeContextKinds

\* DeclContext::isLocalContext
isLocalContext(dc) == dc \in LocalContextKinds

\* The chains of declaration contexts between a declaration and its file
\* unit, innermost first.
CtxChains == UNION {[1..n -> InnerContextKinds] : n \in 0..MaxCtxDepth}

ValueDeclKinds == {"Func", "Constructor", "Subscript", "Var"}
NominalDeclKinds == {"Struct", "Class", "Protocol"}
UnitKinds == {"SourceFile", "ClangModuleUnit"}

\* A declaration: its kind, whether a variable is computed, the chain of
\* its contexts and the kind of file unit it lives in
\* (getModuleScopeContext).
Decl(dk, computed, ctx, unit) ==
  [dk |-> dk, computed |-> computed, ctx |-> ctx, unit |-> unit]
NoDecl == Decl("none", FALSE, <<>>, "SourceFile")
ValueDecls ==
  {Decl(dk, c, ctx, u) : dk \in ValueDeclKinds, c \in BOOLEAN,
                         ctx \in CtxChains, u \in UnitKinds}
NominalDecls ==
  {Decl(dk, FALSE, ctx, u) : dk \in NominalDeclKinds,
                             ctx \in {<<>>, <<"NominalTypeDecl">>,
                                      <<"AbstractFunctionDecl">>,
                                      <<"NominalTypeDecl", "AbstractFunctionDecl">>},
                             u \in UnitKinds}
Decls == {d \in ValueDecls : d.computed => d.dk = "Var"} \cup NominalDecls

\* isLocalLinkageDecl: walk the parents up to the module context; the file
\* unit itself is never a local context.
isLocalLinkageDecl(D) == \E i \in 1..Len(D.ctx) : isLocalContext(D.ctx[i])

\* Canonical types, as trees.  tk is the node kind; decl the nominal
\* declaration of a Nominal or BoundGeneric node; args the child types;
\* params the generic parameters of a PolyFn node, each with its protocol
\* bounds (bare protocol types) and at most one superclass bound.
TypeNode(tk, decl, args, params) ==
  [tk |-> tk, decl |-> decl, args |-> args, params |-> params]
Builtin == TypeNode("Builtin", NoDecl, <<>>, <<>>)
Nominal(d) == TypeNode("Nominal", d, <<>>, <<>>)
BoundGeneric(d, args) == TypeNode("BoundGeneric", d, args, <<>>)
TupleTy(elts) == TypeNode("Tuple", NoDecl, elts, <<>>)
GenericParam(protos, super) == [protos |-> protos, super |-> super]
PolyFn(params, in, out) == TypeNode("PolyFn", NoDecl, <<in, out>>, params)

StructDecls == {d \in NominalDecls : d.dk = "Struct"}
ClassDecls == {d \in NominalDecls : d.dk = "Class"}
ProtocolDecls == {d \in NominalDecls : d.dk = "Protocol"}
LeafTypes == {Builtin} \cup {Nominal(d) : d \in StructDecls \cup ClassDecls}
GenericParams ==
  {GenericParam(<<>>, <<>>)}
    \cup {GenericParam(<<p>>, <<>>) : p \in ProtocolDecls}
    \cup {GenericParam(<<>>, <<Nominal(c)>>) : c \in ClassDecls}
CanTypes ==
  LeafTypes
    \cup {BoundGeneric(d, <<a>>) : d \in StructDecls, a \in LeafTypes}
    \cup {TupleTy(<<a, Builtin>>) : a \in LeafTypes}
    \cup {PolyFn(<<g>>, a, Builtin) : g \in GenericParams, a \in {Builtin}}

\* TypeBase::getAnyNominal, getNominalOrBoundGenericNominal
hasNominal(type) == type.tk \in {"Nominal", "BoundGeneric"}

RECURSIVE isLocalLinkageType(_)
\* isLocalLinkageGenericClause: a clause is local when a protocol bound or a
\* superclass bound of one of its parameters is.
isLocalLinkageGenericClause(params) ==
  \E i \in 1..Len(params) :
    \/ \E j \in 1..Len(params[i].protos) :
         isLocalLinkageType(Nominal(params[i].protos[j]))
    \/ \E j \in 1..Len(params[i].super) :
         isLocalLinkageType(params[i].super[j])

\* The predicate handed to findIf by isLocalLinkageType.
isLocalLinkageNode(type) ==
  IF hasNominal(type) THEN isLocalLinkageDecl(type.decl)
  ELSE IF type.tk = "PolyFn" THEN isLocalLinkageGenericClause(type.params)
  ELSE FALSE

\* isLocalLinkageType looking at the type itself only, not at the types
\* inside it
isLocalLinkageType_NodeOnly(type) == isLocalLinkageNode(type)

\* isLocalLinkageType: findIf visits the node itself, then its children.
isLocalLinkageType(type) ==
  \/ isLocalLinkageNode(type)
  \/ \E i \in 1..Len(type.args) : isLocalLinkageType(type.args[i])

\* LinkEntity::Kind, grouped as the switch of isLocalLinkage groups it.
TypeKeyedKinds ==
  {"ValueWitness", "ValueWitnessTable", "TypeMetadata", "TypeMangling",
   "DebuggerTypeMangling"}
DeclKeyedKinds ==
  {"WitnessTableOffset", "Constructor", "Destructor", "Function", "Getter",
   "Setter", "Other", "ObjCClass", "ObjCMetaclass", "SwiftMetaclassStub",
   "FieldOffset", "NominalTypeDescriptor", "ProtocolDescriptor",
   "DebuggerDeclTypeMangling"}
GeneratorKinds ==
  {"DirectProtocolWitnessTable", "LazyProtocolWitnessTableAccessor",
   "DependentProtocolWitnessTableGenerator"}
TemplateKinds ==
  {"LazyProtocolWitnessTableTemplate", "DependentProtocolWitnessTableTemplate"}
SILKinds == {"SILFunction", "SILGlobalVariable"}
SILLinkages == {"Internal", "Thunk", "Deserialized", "External"}

\* A link entity: its kind and its payload (a declaration, a type or a SIL
\* object's linkage; the fields a kind does not use hold the defaults).
LinkEntity(kind, decl, type, sil) ==
  [kind |-> kind, decl |-> decl, type |-> type, sil |-> sil]
NoEntity == LinkEntity("none", NoDecl, Builtin, "External")
Entities ==
  {LinkEntity(k, d, Builtin, "External") :
     k \in DeclKeyedKinds \cup {"AnonymousFunction"}, d \in Decls}
    \cup {LinkEntity(k, NoDecl, t, "External") :
            k \in TypeKeyedKinds \cup GeneratorKinds \cup TemplateKinds
                    \cup {"BridgeToBlockConverter"},
            t \in CanTypes}
    \cup {LinkEntity(k, NoDecl, Builtin, l) : k \in SILKinds, l \in SILLinkages}

----------------------------------------------------------------------------
(* The linkage policy                                                       *)

\* LinkEntity::isDeclKind, isTypeKind, isProtocolConformanceKind: which
\* payload a kind carries.
isDeclKind(k) == k \in DeclKeyedKinds
isProtocolConformanceKind(k) == k \in GeneratorKinds \cup TemplateKinds
isTypeKind(k) == k \in TypeKeyedKinds \cup {"BridgeToBlockConverter"}

\* LinkEntity::isValueWitness: a per-type runtime-support record.
isValueWitness(e) == e.kind \in {"ValueWitness", "ValueWitnessTable"}

\* isLocalLinkage answering FALSE for the witness-table templates
isLocalLinkage_TemplatesNonLocal(e) ==
  CASE e.kind \in TypeKeyedKinds -> isLocalLinkageType(e.type)
    [] e.kind \in DeclKeyedKinds -> isLocalLinkageDecl(e.decl)
    [] e.kind \in GeneratorKinds -> FALSE
    [] e.kind \in TemplateKinds -> FALSE
    [] e.kind = "AnonymousFunction" -> TRUE
    [] e.kind = "BridgeToBlockConverter" -> FALSE
    [] e.kind \in SILKinds -> e.sil = "Internal"

\* isLocalLinkage answering for an anonymous function by the declaration
\* it carries
isLocalLinkage_AnonymousByDecl(e) ==
  CASE e.kind \in TypeKeyedKinds -> isLocalLinkageType(e.type)
    [] e.kind \in DeclKeyedKinds -> isLocalLinkageDecl(e.decl)
    [] e.kind \in GeneratorKinds -> FALSE
    [] e.kind \in TemplateKinds -> TRUE
    [] e.kind = "AnonymousFunction" -> isLocalLinkageDecl(e.decl)
    [] e.kind = "BridgeToBlockConverter" -> FALSE
    [] e.kind \in SILKinds -> e.sil = "Internal"

\* isLocalLinkage answering TRUE for a bridge-to-block converter
isLocalLinkage_BridgeLocal(e) ==
  CASE e.kind \in TypeKeyedKinds -> isLocalLinkageType(e.type)
    [] e.kind \in DeclKeyedKinds -> isLocalLinkageDecl(e.decl)
    [] e.kind \in GeneratorKinds -> FALSE
    [] e.kind \in TemplateKinds -> TRUE
    [] e.kind = "AnonymousFunction" -> TRUE
    [] e.kind = "BridgeToBlockConverter" -> TRUE
    [] e.kind \in SILKinds -> e.sil = "Internal"

\* LinkEntity::isLocalLinkage, case by case.
isLocalLinkage(e) ==
  CASE e.kind \in TypeKeyedKinds -> isLocalLinkageType(e.type)
    [] e.kind \in DeclKeyedKinds -> isLocalLinkageDecl(e.decl)
    [] e.kind \in GeneratorKinds -> FALSE
    [] e.kind \in TemplateKinds -> TRUE
    [] e.kind = "AnonymousFunction" -> TRUE
    [] e.kind = "BridgeToBlockConverter" -> FALSE
    [] e.kind \in SILKinds -> e.sil = "Internal"

\* isThunk answering TRUE for every declaration of a Clang module
isThunk_AnyForeignDecl(e) ==
  IF e.kind \in SILKinds THEN e.sil = "Thunk"
  ELSE IF isDeclKind(e.kind) THEN e.decl.unit = "ClangModuleUnit"
  ELSE IF isProtocolConformanceKind(e.kind) THEN FALSE
  ELSE IF isTypeKind(e.kind) THEN
    hasNominal(e.type) /\ e.type.decl.unit = "ClangModuleUnit"
  ELSE FALSE

\* LinkEntity::isThunk.  A kind that carries neither a declaration, a type
\* nor a conformance runs into llvm_unreachable; LinkInfo::get never asks
\* for such a kind (an anonymous function is local), and the operator
\* answers FALSE there.
isThunk(e) ==
  IF e.kind \in SILKinds THEN e.sil = "Thunk"
  ELSE IF isDeclKind(e.kind) THEN
    IF e.decl.unit # "ClangModuleUnit" THEN FALSE
    ELSE IF e.kind \in {"NominalTypeDescriptor", "ProtocolDescriptor"} THEN TRUE
    ELSE \/ e.decl.dk = "Constructor"
         \/ e.decl.dk = "Subscript"
         \/ (e.decl.dk = "Var" /\ e.decl.computed)
  ELSE IF isProtocolConformanceKind(e.kind) THEN FALSE
  ELSE IF isTypeKind(e.kind) THEN
    IF ~hasNominal(e.type) THEN FALSE
    ELSE e.type.decl.unit = "ClangModuleUnit"
  ELSE FALSE

\* LinkEntity::isDeserialized
isDeserialized(e) == e.kind \in SILKinds /\ e.sil = "Deserialized"

\* Symbol names.  LinkEntity::mangle is an injective function of the
\* entity: the mangled name is the entity with suffix 0.  Suffix 1 is the
\* name followed by ".unique"; a larger suffix stands for what the symbol
\* table makes of ".unique" when that name is taken too.  NoName is the
\* empty name, which any number of symbols may bear.
SymName(base, suf) == [base |-> base, suf |-> suf]
NoName == SymName(NoEntity, 0)
mangle(e) == SymName(e, 0)

NoInfo == [Name |-> NoName, Linkage |-> "none", Visibility |-> "none"]

\* LinkInfo::get with the test for a thunk moved in front of the test for a
\* local entity.
LinkInfo_get_ThunkFirst(e) ==
  IF e.kind # "AnonymousFunction" /\ isThunk(e) THEN
    [Name |-> mangle(e), Linkage |-> "LinkOnceODRLinkage",
     Visibility |-> "HiddenVisibility"]
  ELSE IF isLocalLinkage(e) THEN
    [Name |-> mangle(e), Linkage |-> "InternalLinkage",
     Visibility |-> "DefaultVisibility"]
  ELSE IF isValueWitness(e) \/ isDeserialized(e) THEN
    [Name |-> mangle(e), Linkage |-> "LinkOnceODRLinkage",
     Visibility |-> "HiddenVisibility"]
  ELSE
    [Name |-> mangle(e), Linkage |-> "ExternalLinkage",
     Visibility |-> "DefaultVisibility"]

\* LinkInfo::get
LinkInfo_get(e) ==
  IF isLocalLinkage(e) THEN
    [Name |-> mangle(e), Linkage |-> "InternalLinkage",
     Visibility |-> "DefaultVisibility"]
  ELSE IF isValueWitness(e) THEN
    [Name |-> mangle(e), Linkage |-> "LinkOnceODRLinkage",
     Visibility |-> "HiddenVisibility"]
  ELSE IF isThunk(e) THEN
    [Name |-> mangle(e), Linkage |-> "LinkOnceODRLinkage",
     Visibility |-> "HiddenVisibility"]
  ELSE IF isDeserialized(e) THEN
    [Name |-> mangle(e), Linkage |-> "LinkOnceODRLinkage",
     Visibility |-> "HiddenVisibility"]
  ELSE
    [Name |-> mangle(e), Linkage |-> "ExternalLinkage",
     Visibility |-> "DefaultVisibility"]

----------------------------------------------------------------------------
(* IR types, symbols and the symbol table                                   *)

\* An IR type: a named type under ptr levels of pointer.
Ty(name) == [ptr |-> 0, base |-> name]
getPointerTo(t) == [t EXCEPT !.ptr = @ + 1]
NullTy == Ty("null")

\* isPointerTo(ptrTy, objTy): the pointer's element type is objTy
isPointerTo(ptrTy, objTy) == ptrTy = getPointerTo(objTy)

\* A symbol of the module.  origin is the entity whose request constructed
\* it (NoEntity for a symbol that was in the module beforehand).
Symbol(name, valueType, kind, link, origin) ==
  [name |-> name, valueType |-> valueType, kind |-> kind,
   linkage |-> link.Linkage, visibility |-> link.Visibility,
   origin |-> origin, live |-> TRUE]

\* GlobalValue::getType: a global is a pointer to its value type
getType(sym) == getPointerTo(sym.valueType)

Live(S) == {i \in 1..Len(S) : S[i].live}

\* Module::getFunction, Module::getNamedGlobal: the live symbol of that kind
\* bearing the name, 0 for none
getNamed(S, nm, kind) ==
  IF \E i \in Live(S) : S[i].name = nm /\ S[i].kind = kind
  THEN CHOOSE i \in Live(S) : S[i].name = nm /\ S[i].kind = kind
  ELSE 0
getFunction(S, nm) == getNamed(S, nm, "Function")
getNamedGlobal(S, nm) == getNamed(S, nm, "GlobalVariable")

\* Value::setName: the empty name is always free; a name another symbol
\* bears is made unique by the symbol table.
nameTaken(S, i, nm) == \E j \in Live(S) \ {i} : S[j].name = nm
setName(S, i, nm) ==
  IF nm = NoName \/ ~nameTaken(S, i, nm) THEN [S EXCEPT ![i].name = nm]
  ELSE LET free == {n \in (nm.suf + 1)..(nm.suf + Len(S) + 1) :
                      ~nameTaken(S, i, SymName(nm.base, n))}
           n == CHOOSE m \in free : \A o \in free : m <= o
       IN [S EXCEPT ![i].name = SymName(nm.base, n)]

\* getName() + ".unique"
uniqueName(nm) == SymName(nm.base, nm.suf + 1)

\* GlobalValue::eraseFromParent
eraseFromParent(S, i) == [S EXCEPT ![i].live = FALSE]

\* A value handed to a caller: the symbol it refers to, seen at type ty
\* (the symbol itself when ty is the symbol's own type, a bitcast of it
\* otherwise), for the request of key, which was a definition or a use.
Handle(key, sym, ty, def) == [key |-> key, sym |-> sym, ty |-> ty, def |-> def]
NullHandle == Handle(NoEntity, 0, NullTy, FALSE)

\* Value::replaceAllUsesWith(castVar), castVar a view of symbol var at type
\* castTy: a reference to old itself becomes castVar, a bitcast of old
\* becomes the same bitcast of var.
replaceAllUsesWith(H, S, old, var, castTy) ==
  {IF h.sym # old THEN h
   ELSE [h EXCEPT !.sym = var,
                  !.ty = IF h.ty = getType(S[old]) THEN castTy ELSE h.ty] :
     h \in H}

\* llvm::Function::Create, new llvm::GlobalVariable: the symbol enters the
\* module's symbol table under its name.
addSymbol(S, sym) ==
  setName(Append(S, [sym EXCEPT !.name = NoName]), Len(S) + 1, sym.name)

----------------------------------------------------------------------------
(* LinkInfo::createFunction and LinkInfo::createVariable                    *)

\* The result of a create: the module, the error flag, the symbol returned
\* and whether a collision was reported.
Created(S, err, result, collided) ==
  [syms |-> S, hadError |-> err, result |-> result, collided |-> collided]

\* LinkInfo::createFunction with the newly made function renamed on a
\* collision and the existing symbol left alone.
LinkInfo_createFunction_RenameNewer(S, err, link, fnType) ==
  LET existing == getFunction(S, link.Name) IN
  IF existing # 0 /\ isPointerTo(getType(S[existing]), fnType)
  THEN Created(S, err, existing, FALSE)
  ELSE LET fn == Symbol(IF existing # 0 THEN uniqueName(link.Name) ELSE link.Name,
                        fnType, "Function", link, link.Name.base)
       IN Created(addSymbol(S, fn), err \/ existing # 0, Len(S) + 1,
                  existing # 0)

\* LinkInfo::createFunction: adopt a function of that name and type;
\* otherwise report a collision with a function of that name, move it out
\* of the way, and make the function.
LinkInfo_createFunction(S, err, link, fnType) ==
  LET existing == getFunction(S, link.Name) IN
  IF existing # 0 /\ isPointerTo(getType(S[existing]), fnType)
  THEN Created(S, err, existing, FALSE)
  ELSE LET S1 == IF existing # 0
                 THEN setName(S, existing, uniqueName(link.Name))
                 ELSE S
           fn == Symbol(link.Name, fnType, "Function", link, link.Name.base)
       IN Created(addSymbol(S1, fn), err \/ existing # 0, Len(S) + 1,
                  existing # 0)

\* LinkInfo::createVariable without the adoption of a variable of that name
\* and type: every variable of that name is a collision.
LinkInfo_createVariable_NeverAdopt(S, err, link, storageType) ==
  LET existing == getNamedGlobal(S, link.Name)
      S1 == IF existing # 0
            THEN setName(S, existing, uniqueName(link.Name))
            ELSE S
      var == Symbol(link.Name, storageType, "GlobalVariable", link,
                    link.Name.base)
  IN Created(addSymbol(S1, var), err \/ existing # 0, Len(S) + 1,
             existing # 0)

\* LinkInfo::createVariable: the same for a global variable.
LinkInfo_createVariable(S, err, link, storageType) ==
  LET existing == getNamedGlobal(S, link.Name) IN
  IF /\ existing # 0
     /\ S[existing].kind = "GlobalVariable"
     /\ isPointerTo(getType(S[existing]), storageType)
  THEN Created(S, err, existing, FALSE)
  ELSE LET S1 == IF existing # 0
                 THEN setName(S, existing, uniqueName(link.Name))
                 ELSE S
           var == Symbol(link.Name, storageType, "GlobalVariable", link,
                         link.Name.base)
       IN Created(addSymbol(S1, var), err \/ existing # 0, Len(S) + 1,
                  existing # 0)

----------------------------------------------------------------------------
(* getAddrOfLLVMVariable                                                    *)

\* What a request leaves behind: the module, the cache it works on, the
\* handles, the flags, the handle it returns, the path it took ("hit",
\* "create", "upgrade" or "abort"), whether a collision was reported and,
\* on an upgrade, the symbol it replaced.
Outcome(S, globals, H, err, av, result, path, collided, stale) ==
  [syms |-> S, globals |-> globals, handles |-> H, hadError |-> err,
   assertViolated |-> av, result |-> result, path |-> path,
   collided |-> collided, stale |-> stale]

\* assert(entry->getType() == pointerToDefaultType), never failing
entryHasDefaultType_Always(S, entry, pointerToDefaultType) == TRUE

\* The condition of assert(entry->getType() == pointerToDefaultType)
entryHasDefaultType(S, entry, pointerToDefaultType) ==
  getType(S[entry]) = pointerToDefaultType

\* entry->setName("") left out
clearName_Keep(S, entry) == S

\* entry->setName(""): the name is cleared so that createVariable does not
\* detect a collision
clearName(S, entry) == setName(S, entry, NoName)

\* a bitcast that leaves the value at its own type
getBitCast_Identity(S, sym, ty) == getType(S[sym])

\* llvm::ConstantExpr::getBitCast(sym, ty): the type the value is seen at
getBitCast(S, sym, ty) == ty

\* replaceAllUsesWith left out
spliceUses_None(H, S, entry, var, pointerToDefaultType) == H

\* castVar = getBitCast(var, pointerToDefaultType);
\* entry->replaceAllUsesWith(castVar)
spliceUses(H, S, entry, var, pointerToDefaultType) ==
  replaceAllUsesWith(H, S, entry, var, getBitCast(S, var, pointerToDefaultType))

\* entry->eraseFromParent() left out
discardEntry_Keep(S, entry) == S

\* entry->eraseFromParent()
discardEntry(S, entry) == eraseFromParent(S, entry)

\* getAddrOfLLVMVariable.  c is the state it works on (syms, globals,
\* handles, hadError, assertViolated), nd whether assert() is compiled
\* away, definitionType NullTy for a request that defines nothing.
getAddrOfLLVMVariable(c, nd, ent, definitionType, defaultType, pointerToDefaultType) ==
  LET entry == c.globals[ent]
      defining == definitionType # NullTy
      assertOK == entryHasDefaultType(c.syms, entry, pointerToDefaultType)
  IN
  IF entry # 0 /\ defining /\ ~assertOK /\ ~nd THEN
    \* the assertion fails and the process aborts
    Outcome(c.syms, c.globals, c.handles, c.hadError, TRUE, NullHandle,
            "abort", FALSE, 0)
  ELSE IF entry # 0 /\ defining /\ definitionType = defaultType THEN
    \* the type is right: return entry
    LET res == Handle(ent, entry, getType(c.syms[entry]), TRUE) IN
    Outcome(c.syms, c.globals, c.handles \cup {res}, c.hadError,
            c.assertViolated \/ ~assertOK, res, "hit", FALSE, 0)
  ELSE IF entry # 0 /\ ~defining THEN
    \* a previous declaration or definition: bitcast it
    LET res == Handle(ent, entry,
                      getBitCast(c.syms, entry, pointerToDefaultType), FALSE)
    IN
    Outcome(c.syms, c.globals, c.handles \cup {res}, c.hadError,
            c.assertViolated, res, "hit", FALSE, 0)
  ELSE
    \* fall out: clear the name of an entry that is being replaced, create
    \* the variable, splice the uses over and erase the entry, cache
    LET S1 == IF entry # 0 THEN clearName(c.syms, entry) ELSE c.syms
        storageType == IF defining THEN definitionType ELSE defaultType
        link == LinkInfo_get(ent)
        cv == LinkInfo_createVariable(S1, c.hadError, link, storageType)
        var == cv.result
        H1 == IF entry # 0
              THEN spliceUses(c.handles, cv.syms, entry, var, pointerToDefaultType)
              ELSE c.handles
        S2 == IF entry # 0 THEN discardEntry(cv.syms, entry) ELSE cv.syms
        res == Handle(ent, var, getType(S2[var]), defining)
    IN Outcome(S2, [c.globals EXCEPT ![ent] = var], H1 \cup {res},
               cv.hadError,
               c.assertViolated \/ (entry # 0 /\ defining /\ ~assertOK),
               res, IF entry # 0 THEN "upgrade" ELSE "create",
               cv.collided, entry)

----------------------------------------------------------------------------
(* The requests of one module's lowering                                    *)

\* The entities requested: a function local to a function body, a global
\* variable and the value-witness table of a struct.
SourceStruct == Decl("Struct", FALSE, <<>>, "SourceFile")
fnKey ==
  LinkEntity("Function", Decl("Func", FALSE, <<"AbstractFunctionDecl">>, "SourceFile"),
             Builtin, "External")
varKey ==
  LinkEntity("Other", Decl("Var", FALSE, <<>>, "SourceFile"), Builtin, "External")
vwtKey == LinkEntity("ValueWitnessTable", NoDecl, Nominal(SourceStruct), "External")
FuncKeys == {fnKey}
VarKeys == {varKey, vwtKey}
LLVMVarKeys == {vwtKey}
Keys == FuncKeys \cup VarKeys

\* The IR types of the requests.  The type of a function and the storage
\* type of a global variable are functions of the declaration; a table has
\* the default type WitnessTableTy and is defined at a type of its own.
FnTy == Ty("FnTy")
StorageTy == Ty("StorageTy")
WitnessTableTy == Ty("WitnessTableTy")
WitnessTablePtrTy == getPointerTo(WitnessTableTy)
TableDefTy == Ty("TableDefTy")
DefinitionTypes == {WitnessTableTy, TableDefTy}

\* Symbols the module may hold before the first request: a symbol bearing
\* the mangled name of a key, of the requested type or of another one, and
\* a symbol bearing that name followed by ".unique".
ForeignLink == [Name |-> NoName, Linkage |-> "ExternalLinkage",
                Visibility |-> "DefaultVisibility"]
Foreign(k, suf, type, kind) ==
  Symbol(SymName(k, suf), type, kind, ForeignLink, NoEntity)
ForeignCandidates ==
  {Foreign(fnKey, 0, t, "Function") : t \in {FnTy, Ty("OtherFnTy")}}
    \cup {Foreign(fnKey, 1, FnTy, "Function")}
    \cup {Foreign(varKey, 0, t, "GlobalVariable") : t \in {StorageTy, Ty("OtherTy")}}
    \cup {Foreign(vwtKey, 0, t, "GlobalVariable") : t \in DefinitionTypes}
    \cup {Foreign(vwtKey, 1, WitnessTableTy, "GlobalVariable")}
ForeignModules ==
  {S \in UNION {[1..n -> ForeignCandidates] : n \in 0..MaxForeign} :
     \A i, j \in 1..Len(S) :
       i < j => S[i].name.base = S[j].name.base /\ S[i].name.suf < S[j].name.suf}

----------------------------------------------------------------------------
(* Formal types of getters and setters                                      *)

\* FunctionType::get, LValueType::get, TupleType::getEmpty
Fn(in, out) == TypeNode("Fn", NoDecl, <<in, out>>, <<>>)
LValue(objTy) == TypeNode("LValue", NoDecl, <<objTy>>, <<>>)
EmptyTuple == TupleTy(<<>>)

\* The types of stored objects, index lists and owners the accessors are
\* derived for.
ModuleScope(dk) == Decl(dk, FALSE, <<>>, "SourceFile")
ObjectTypes == {Builtin, Nominal(ModuleScope("Struct"))}
IndicesTy == TupleTy(<<Builtin>>)
OwnerTypes == {Nominal(ModuleScope("Struct")), Nominal(ModuleScope("Class"))}
OwnerParams == {<<>>, <<GenericParam(<<>>, <<>>)>>}

\* TypeBase::hasReferenceSemantics: a class type is a reference
hasReferenceSemantics(type) == hasNominal(type) /\ type.decl.dk = "Class"

\* A ValueDecl as the accessor derivation sees it: the declaration, its
\* type (ValueDecl::getType), for a subscript its element type and the type
\* of its indices, and for a member of a type or of an extension the
\* declared type of the context and the generic parameters of the context.
AccessorValue(decl, type, elementType, indices, ownerType, ownerParams) ==
  [decl |-> decl, type |-> type, elementType |-> elementType,
   indices |-> indices, ownerType |-> ownerType, ownerParams |-> ownerParams]
NoValue == AccessorValue(NoDecl, Builtin, Builtin, EmptyTuple, Builtin, <<>>)

\* DeclContext::getContextKind of the declaration's own context
getContextKind(decl) == IF Len(decl.ctx) = 0 THEN "FileUnit" ELSE decl.ctx[1]

AccessorValues ==
  {AccessorValue(d,
                 IF d.dk = "Subscript" THEN Fn(IndicesTy, t) ELSE t,
                 IF d.dk = "Subscript" THEN t ELSE Builtin,
                 IF d.dk = "Subscript" THEN IndicesTy ELSE EmptyTuple,
                 o, ps) :
     d \in {x \in Decls : x.dk \in ValueDeclKinds /\ x.unit = "SourceFile"},
     t \in ObjectTypes, o \in OwnerTypes \cup {Builtin}, ps \in OwnerParams}

\* The values whose owner is given exactly when the context is a type or an
\* extension.
AccessorSubjects ==
  {v \in AccessorValues :
     IF getContextKind(v.decl) \in TypeContextKinds
     THEN v.ownerType \in OwnerTypes
     ELSE v.ownerType = Builtin /\ v.ownerParams = <<>>}

\* FormalType: a formal type, its calling convention and uncurry level
FormalType(formalType, cc, uncurryLevel) ==
  [formalType |-> formalType, cc |-> cc, uncurryLevel |-> uncurryLevel]
NoFormal == FormalType(Builtin, "none", 0)

\* getObjectType answering with the declared type of a subscript too
getObjectType_DeclaredType(v) == v.type

\* getObjectType
getObjectType(v) ==
  IF v.decl.dk = "Subscript" THEN v.elementType ELSE v.type

\* addIndexArgument(value, formalType, uncurryLevel): f holds the two
\* reference parameters.
addIndexArgument(v, f) ==
  IF v.decl.dk = "Subscript"
  THEN [f EXCEPT !.formalType = Fn(v.indices, f.formalType),
                 !.uncurryLevel = f.uncurryLevel + 1]
  ELSE f

\* addOwnerArgument(DC, resultType) passing every owner by value
addOwnerArgumentType_ByValue(v, resultType) ==
  IF Len(v.ownerParams) > 0
  THEN PolyFn(v.ownerParams, v.ownerType, resultType)
  ELSE Fn(v.ownerType, resultType)

\* addOwnerArgument(DeclContext *DC, CanType resultType)
addOwnerArgumentType(v, resultType) ==
  LET declared == v.ownerType
      argType == IF ~hasReferenceSemantics(declared)
                 THEN LValue(declared) ELSE declared
  IN IF Len(v.ownerParams) > 0
     THEN PolyFn(v.ownerParams, argType, resultType)
     ELSE Fn(argType, resultType)

\* addOwnerArgument(value, resultType, uncurryLevel) treating an extension
\* as a context without an owner
addOwnerArgument_ExtensionFree(v, f) ==
  CASE getContextKind(v.decl) \in
         {"Module", "FileUnit", "ExtensionDecl"} \cup LocalContextKinds ->
         [f EXCEPT !.cc = "Freestanding"]
    [] getContextKind(v.decl) = "NominalTypeDecl" ->
         [f EXCEPT !.formalType = addOwnerArgumentType(v, f.formalType),
                   !.uncurryLevel = f.uncurryLevel + 1,
                   !.cc = "Method"]

\* addOwnerArgument(ValueDecl *value, CanType &resultType,
\*                  unsigned &uncurryLevel): the returned convention is cc.
addOwnerArgument(v, f) ==
  CASE getContextKind(v.decl) \in {"Module", "FileUnit"} \cup LocalContextKinds ->
         [f EXCEPT !.cc = "Freestanding"]
    [] getContextKind(v.decl) \in TypeContextKinds ->
         [f EXCEPT !.formalType = addOwnerArgumentType(v, f.formalType),
                   !.uncurryLevel = f.uncurryLevel + 1,
                   !.cc = "Method"]

\* IRGenModule::getTypeOfGetter
getTypeOfGetter(v) ==
  LET formal == FormalType(Fn(EmptyTuple, getObjectType(v)), "none", 0)
  IN addOwnerArgument(v, addIndexArgument(v, formal))

\* IRGenModule::getTypeOfSetter
getTypeOfSetter(v) ==
  LET argType == getObjectType(v)
      formal == FormalType(Fn(argType, EmptyTuple), "none", 0)
  IN addOwnerArgument(v, addIndexArgument(v, formal))

AccessorIdle ==
  /\ value = NoValue
  /\ getterType = NoFormal
  /\ setterType = NoFormal

----------------------------------------------------------------------------
(* The declaration dispatcher: emitGlobalDecl and emitExtension             *)

\* DeclKind
DeclKinds ==
  {"Extension", "Protocol", "PatternBinding", "Subscript", "EnumCase",
   "EnumElement", "Constructor", "Destructor", "TypeAlias",
   "GenericTypeParam", "AssociatedType", "Enum", "Struct", "Class", "Import",
   "Var", "Func", "TopLevelCode", "InfixOperator", "PrefixOperator",
   "PostfixOperator"}

\* A declaration as the dispatcher sees it: its kind, whether a variable is
\* computed, and whether it requires an Objective-C descriptor
\* (requiresObjCMethodDescriptor and its siblings).
DispatchDecl(dk, computed, objc) == [dk |-> dk, computed |-> computed, objc |-> objc]
DescribedKinds == {"Func", "Constructor", "Var", "Subscript"}
DispatchDecls ==
  {DispatchDecl(dk, FALSE, FALSE) : dk \in DeclKinds}
    \cup {DispatchDecl("Var", TRUE, o) : o \in BOOLEAN}
    \cup {DispatchDecl(dk, FALSE, TRUE) : dk \in DescribedKinds}

\* A protocol the extension conforms to, with the protocols of the inherited
\* conformances.
ConformedProtocol(isObjC, inherited) == [isObjC |-> isObjC, inherited |-> inherited]
ProtocolLists ==
  {<<>>,
   <<ConformedProtocol(TRUE, <<>>)>>,
   <<ConformedProtocol(FALSE, <<>>)>>,
   <<ConformedProtocol(FALSE, <<ConformedProtocol(TRUE, <<>>)>>)>>,
   <<ConformedProtocol(FALSE, <<>>), ConformedProtocol(TRUE, <<>>)>>}

\* An ExtensionDecl: its identity, its members in order, the class it
\* extends ("none" for an extension of another type) and its protocols.
OrigClasses == {"none", "Swift", "ObjC"}
ExtensionDecl(id, members, origClass, protocols) ==
  [dk |-> "Extension", computed |-> FALSE, objc |-> FALSE, id |-> id,
   members |-> members, origClass |-> origClass, protocols |-> protocols]
MemberLists ==
  {<<>>} \cup {<<m>> : m \in DispatchDecls}
         \cup {<<m, n>> : m \in DispatchDecls, n \in DispatchDecls}
EarlierExtension == ExtensionDecl("earlier", <<>>, "ObjC", <<>>)
Extensions ==
  {ExtensionDecl("ext", ms, c, ps) :
     ms \in MemberLists, c \in OrigClasses, ps \in ProtocolLists}

\* The declarations emitGlobalDecl is called with.
GlobalDecls ==
  {d \in DispatchDecls : d.dk # "Extension" /\ ~d.objc} \cup Extensions

\* The switch of emitGlobalDecl doing nothing for a function
emitGlobalDecl_case_FuncIgnored(D, debugInfo) ==
  CASE D.dk = "Extension" -> "emitExtension"
    [] D.dk = "Protocol" -> "emitProtocolDecl"
    [] D.dk \in {"Subscript", "EnumCase", "EnumElement", "Constructor",
                 "Destructor"} -> "unreachable"
    [] D.dk = "Enum" -> "emitEnumDecl"
    [] D.dk = "Struct" -> "emitStructDecl"
    [] D.dk = "Class" -> "emitClassDecl"
    [] D.dk = "Import" -> IF debugInfo THEN "emitImport" ELSE "return"
    [] OTHER -> "return"

\* The switch of emitGlobalDecl: what the case of D does.
emitGlobalDecl_case(D, debugInfo) ==
  CASE D.dk = "Extension" -> "emitExtension"
    [] D.dk = "Protocol" -> "emitProtocolDecl"
    [] D.dk = "PatternBinding" -> "return"
    [] D.dk = "Subscript" -> "unreachable"
    [] D.dk \in {"EnumCase", "EnumElement"} -> "unreachable"
    [] D.dk = "Constructor" -> "unreachable"
    [] D.dk = "Destructor" -> "unreachable"
    [] D.dk \in {"TypeAlias", "GenericTypeParam", "AssociatedType"} -> "return"
    [] D.dk = "Enum" -> "emitEnumDecl"
    [] D.dk = "Struct" -> "emitStructDecl"
    [] D.dk = "Class" -> "emitClassDecl"
    [] D.dk = "Import" -> IF debugInfo THEN "emitImport" ELSE "return"
    [] D.dk = "Var" -> "return"
    [] D.dk = "Func" -> "emitLocalDecls"
    [] D.dk = "TopLevelCode" -> "return"
    [] D.dk \in {"InfixOperator", "PrefixOperator", "PostfixOperator"} -> "return"

\* The switch of emitExtension sending every member through the switch of
\* emitGlobalDecl
emitExtension_case_AsGlobal(member) ==
  LET c == emitGlobalDecl_case(member, FALSE) IN
  IF member.dk \in {"Extension", "Import", "InfixOperator", "PrefixOperator",
                    "PostfixOperator"}
  THEN "unreachable"
  ELSE IF c = "return" THEN "continue" ELSE c

\* The switch of emitExtension: what the case of a member does.
emitExtension_case(member) ==
  CASE member.dk \in {"Import", "EnumCase", "EnumElement", "TopLevelCode",
                      "Protocol", "Extension", "Destructor", "InfixOperator",
                      "PrefixOperator", "PostfixOperator"} -> "unreachable"
    [] member.dk = "PatternBinding" -> "continue"
    [] member.dk = "Subscript" -> "continue"
    [] member.dk \in {"TypeAlias", "GenericTypeParam", "AssociatedType"} -> "continue"
    [] member.dk = "Enum" -> "emitEnumDecl"
    [] member.dk = "Struct" -> "emitStructDecl"
    [] member.dk = "Class" -> "emitClassDecl"
    [] member.dk = "Var" -> IF member.computed THEN "continue" ELSE "unreachable"
    [] member.dk = "Func" -> "emitLocalDecls"
    [] member.dk = "Constructor" -> "emitLocalDecls"

\* What reaching llvm_unreachable can do: the process ends with a message
\* in a build with assertions; without them the statement is
\* __builtin_unreachable and reaching it is undefined: the process may end
\* or go on past the statement.
unreachableOutcomes(nd) == IF nd THEN {"abort", "goon"} ELSE {"abort"}

\* An emitter was called for a declaration.
Emitted(fn, D) == [fn |-> fn, dk |-> D.dk]

\* protocolExtensionRequiresCategory
RECURSIVE protocolExtensionRequiresCategory(_)
protocolExtensionRequiresCategory(protocol) ==
  \/ protocol.isObjC
  \/ \E i \in 1..Len(protocol.inherited) :
       protocolExtensionRequiresCategory(protocol.inherited[i])

\* needsCategory looking at the conformances the extension declares only,
\* not at the ones they inherit
needsCategory_DirectProtocols(ext) ==
  \/ ext.origClass = "ObjC"
  \/ \E i \in 1..Len(ext.protocols) : ext.protocols[i].isObjC
  \/ \E i \in 1..Len(ext.members) :
       ext.members[i].dk \in DescribedKinds /\ ext.members[i].objc

\* needsCategory, as emitExtension computes it for an extension of a class
needsCategory(ext) ==
  \/ ext.origClass = "ObjC"
  \/ \E i \in 1..Len(ext.protocols) :
       protocolExtensionRequiresCategory(ext.protocols[i])
  \/ \E i \in 1..Len(ext.members) :
       ext.members[i].dk \in DescribedKinds /\ ext.members[i].objc

\* The state the dispatcher works on and leaves.
Dispatch(em, cats, catDecls, hit, gone, calls) ==
  [emitted |-> em, ObjCCategories |-> cats, ObjCCategoryDecls |-> catDecls,
   unreachableHit |-> hit, gone |-> gone, calls |-> calls]

\* The member loop of emitExtension from member i on; ub[i] is what reaching
\* llvm_unreachable does at member i; calls collects what each member's case
\* did.
RECURSIVE emitExtension_members(_, _, _, _)
emitExtension_members(d, ext, ub, i) ==
  IF i > Len(ext.members) THEN d
  ELSE
    LET member == ext.members[i]
        c == emitExtension_case(member)
    IN IF c = "unreachable" THEN
         IF ub[i] = "abort"
         THEN [d EXCEPT !.unreachableHit = TRUE, !.gone = TRUE,
                        !.calls = Append(@, "unreachable")]
         ELSE emitExtension_members(
                [d EXCEPT !.unreachableHit = TRUE,
                          !.calls = Append(@, "unreachable")], ext, ub, i + 1)
       ELSE IF c = "continue" THEN
         emitExtension_members([d EXCEPT !.calls = Append(@, c)], ext, ub, i + 1)
       ELSE
         emitExtension_members(
           [d EXCEPT !.emitted = Append(@, Emitted(c, member)),
                     !.calls = Append(@, c)], ext, ub, i + 1)

\* The category record emitCategoryData builds for an extension, cast to
\* Int8PtrTy.
CategoryData(ext) == [category |-> ext.id, ty |-> "Int8PtrTy"]

\* IRGenModule::emitExtension recording the category data without the
\* extension it was built for.
emitExtension_DataOnly(d, ext, ub) ==
  LET m == emitExtension_members(d, ext, ub, 1) IN
  IF m.gone THEN m
  ELSE IF ext.origClass = "none" THEN m
  ELSE IF needsCategory(ext)
  THEN [m EXCEPT !.ObjCCategories = Append(@, CategoryData(ext))]
  ELSE m

\* IRGenModule::emitExtension without the return on an extended type that
\* is no class.
emitExtension_AnyType(d, ext, ub) ==
  LET m == emitExtension_members(d, ext, ub, 1) IN
  IF m.gone THEN m
  ELSE IF needsCategory(ext)
  THEN [m EXCEPT !.ObjCCategories = Append(@, CategoryData(ext)),
                 !.ObjCCategoryDecls = Append(@, ext)]
  ELSE m

\* IRGenModule::emitExtension
emitExtension(d, ext, ub) ==
  LET m == emitExtension_members(d, ext, ub, 1) IN
  IF m.gone THEN m
  ELSE IF ext.origClass = "none" THEN m
  ELSE IF needsCategory(ext)
  THEN [m EXCEPT !.ObjCCategories = Append(@, CategoryData(ext)),
                 !.ObjCCategoryDecls = Append(@, ext)]
  ELSE m

\* The body of IRGenModule::emitGlobalDecl(D) on the dispatcher state d0.
emitGlobalDecl_body(d0, D, debugInfo, ub) ==
  LET c == emitGlobalDecl_case(D, debugInfo) IN
  IF c = "emitExtension" THEN emitExtension(d0, D, ub)
  ELSE IF c = "unreachable" THEN
    [d0 EXCEPT !.unreachableHit = TRUE, !.gone = (ub[0] = "abort")]
  ELSE IF c = "return" THEN d0
  ELSE [d0 EXCEPT !.emitted = Append(@, Emitted(c, D))]

NoDispatch == [decl |-> DispatchDecl("none", FALSE, FALSE), case |-> "none",
               calls |-> <<>>, gone |-> FALSE]

DispatchIdle ==
  /\ emitted = <<>>
  /\ ObjCCategories = <<>>
  /\ ObjCCategoryDecls = <<>>
  /\ DebugInfo = FALSE
  /\ unreachableHit = FALSE
  /\ dispatched = NoDispatch

----------------------------------------------------------------------------
(* The synthesis passes: category and class initializers, emitSourceFile,   *)
(* emitGlobalLists                                                          *)

\* The files emitSourceFile is applied to in one module, and the classes
\* and globals announced by addObjCClass and addUsedGlobal.
MaxFiles == 2
MaxClasses == 2
MaxUsed == 1

\* An instruction of a synthesized function: a call, a store or a return.
\* A registration call carries the record it targets, the extension and the
\* member (or protocol) index it is for, and which entry point it installs.
Inst(op, callee, target, ext, index, role) ==
  [op |-> op, callee |-> callee, target |-> target, ext |-> ext,
   index |-> index, role |-> role]
Call(callee) == Inst("call", callee, "", "", 0, "")
Store(param) == Inst("store", param, "", "", 0, "")
Ret(v) == Inst("ret", v, "", "", 0, "")

\* An llvm::Function of the module: its basic blocks, each a sequence of
\* instructions.
Function(name, linkage, blocks) ==
  [name |-> name, linkage |-> linkage, blocks |-> blocks]
getFunctionNamed(fns, name) == {f \in fns : f.name = name}

\* The top_level_code function SIL lowering leaves in the module: absent,
\* a lone return, or something executable.
TopLevelBodies ==
  {<< <<Ret("void")>> >>,
   << <<Call("print"), Ret("void")>> >>,
   << <<Inst("br", "then", "", "", 0, "")>>, <<Ret("void")>> >>}
TopLevelCode(blocks) == Function("top_level_code", "external", blocks)

\* isTrivialGlobalInit caring about the number of blocks only
isTrivialGlobalInit_OneBlock(fn) == Len(fn.blocks) = 1

\* isTrivialGlobalInit
isTrivialGlobalInit(fn) ==
  IF Len(fn.blocks) # 1 THEN FALSE
  ELSE IF Len(fn.blocks[1]) # 1 THEN FALSE
  ELSE TRUE

\* emitObjCClassInitializer: the function sending load to each class.
emitObjCClassInitializer(classes) ==
  Function("_swift_initObjCClasses", "internal",
           << [i \in 1..Len(classes) |->
                 Inst("call", "objc_msgSend", classes[i], "", i, "load")]
              \o <<Ret("void")>> >>)

\* A member of an extension as the category initializer sees it: a
\* DispatchDecl that also says whether it is static and whether it is
\* settable.
CategoryMember(dk, computed, objc, isStatic, isSettable) ==
  [dk |-> dk, computed |-> computed, objc |-> objc,
   isStatic |-> isStatic, isSettable |-> isSettable]
CategoryMembers ==
  {CategoryMember("Func", FALSE, o, s, FALSE) : o \in BOOLEAN, s \in BOOLEAN}
    \cup {CategoryMember("Constructor", FALSE, o, FALSE, FALSE) : o \in BOOLEAN}
    \cup {CategoryMember("Var", TRUE, TRUE, s, t) : s \in BOOLEAN, t \in BOOLEAN}
    \cup {CategoryMember("Subscript", FALSE, TRUE, FALSE, t) : t \in BOOLEAN}
    \cup {CategoryMember("Var", TRUE, FALSE, FALSE, FALSE),
          CategoryMember("Subscript", FALSE, FALSE, FALSE, TRUE),
          CategoryMember("Struct", FALSE, FALSE, FALSE, FALSE)}

\* The two calls registering one entry point: sel_registerName, then
\* class_replaceMethod on target.
replaceMethod(target, ext, i, role) ==
  <<Inst("call", "sel_registerName", "", ext.id, i, role),
    Inst("call", "class_replaceMethod", target, ext.id, i, role)>>

\* CategoryInitializerVisitor::visitFuncDecl
visitFuncDecl(ext, i) ==
  LET method == ext.members[i] IN
  IF ~method.objc THEN <<>>
  ELSE replaceMethod(IF method.isStatic THEN "metaclassMetadata"
                     ELSE "classMetadata", ext, i, "method")

\* CategoryInitializerVisitor::visitConstructorDecl
visitConstructorDecl(ext, i) ==
  IF ~ext.members[i].objc THEN <<>>
  ELSE replaceMethod("classMetadata", ext, i, "method")

\* visitVarDecl registering a setter whatever isSettable says
visitVarDecl_SetterAlways(ext, i) ==
  IF ~ext.members[i].objc THEN <<>>
  ELSE replaceMethod("classMetadata", ext, i, "getter")
         \o replaceMethod("classMetadata", ext, i, "setter")

\* CategoryInitializerVisitor::visitVarDecl
visitVarDecl(ext, i) ==
  LET prop == ext.members[i] IN
  IF ~prop.objc THEN <<>>
  ELSE replaceMethod("classMetadata", ext, i, "getter")
         \o (IF prop.isSettable
             THEN replaceMethod("classMetadata", ext, i, "setter")
             ELSE <<>>)

\* CategoryInitializerVisitor::visitSubscriptDecl
visitSubscriptDecl(ext, i) ==
  LET subscript == ext.members[i] IN
  IF ~subscript.objc THEN <<>>
  ELSE replaceMethod("classMetadata", ext, i, "getter")
         \o (IF subscript.isSettable
             THEN replaceMethod("classMetadata", ext, i, "setter")
             ELSE <<>>)

\* ClassMemberVisitor::visit: the visitor has a method for four kinds.
visit(ext, i) ==
  CASE ext.members[i].dk = "Func" -> visitFuncDecl(ext, i)
    [] ext.members[i].dk = "Constructor" -> visitConstructorDecl(ext, i)
    [] ext.members[i].dk = "Var" -> visitVarDecl(ext, i)
    [] ext.members[i].dk = "Subscript" -> visitSubscriptDecl(ext, i)
    [] OTHER -> <<>>

\* CategoryInitializerVisitor::visitMembers, from member i on
RECURSIVE visitMembers(_, _)
visitMembers(ext, i) ==
  IF i > Len(ext.members) THEN <<>>
  ELSE visit(ext, i) \o visitMembers(ext, i + 1)

\* The constructor of CategoryInitializerVisitor, from protocol i on: one
\* class_addProtocol for each protocol of the extension that is ObjC.
RECURSIVE CategoryInitializerVisitor(_, _)
CategoryInitializerVisitor(ext, i) ==
  IF i > Len(ext.protocols) THEN <<>>
  ELSE (IF ext.protocols[i].isObjC
        THEN <<Inst("call", "class_addProtocol", "classMetadata",
                    ext.id, i, "protocol")>>
        ELSE <<>>) \o CategoryInitializerVisitor(ext, i + 1)

\* The loop of emitObjCCategoryInitializer, from category i on
RECURSIVE emitObjCCategoryInitializer_loop(_, _)
emitObjCCategoryInitializer_loop(categories, i) ==
  IF i > Len(categories) THEN <<>>
  ELSE CategoryInitializerVisitor(categories[i], 1)
         \o visitMembers(categories[i], 1)
         \o emitObjCCategoryInitializer_loop(categories, i + 1)

\* emitObjCCategoryInitializer
emitObjCCategoryInitializer(categories) ==
  Function("_swift_initObjCCategories", "internal",
           << emitObjCCategoryInitializer_loop(categories, 1)
              \o <<Ret("void")>> >>)

\* The extensions that can be in ObjCCategoryDecls: extensions of a class,
\* needing a category, whose member loop ran to its end.
CategoryExtensions ==
  {e \in {ExtensionDecl("ext", ms, c, ps) :
            ms \in {<<>>} \cup {<<m>> : m \in CategoryMembers}
                   \cup {<<m, n>> : m \in CategoryMembers, n \in CategoryMembers},
            c \in {"Swift", "ObjC"}, ps \in ProtocolLists} :
     needsCategory(e)}
EarlierCategory ==
  ExtensionDecl("earlier", <<CategoryMember("Func", FALSE, TRUE, FALSE, FALSE)>>,
                "ObjC", <<>>)

\* A SourceFile: its kind, its name and its top-level declarations.
SourceFileKinds == {"Library", "Main", "REPL"}
SourceFile(Kind, name, decls) == [Kind |-> Kind, name |-> name, Decls |-> decls]
NoSourceFile == SourceFile("none", "", <<>>)
FileNames == <<"a.swift", "b.swift", "c.swift">>
DeclLists(name) ==
  LET func == DispatchDecl("Func", FALSE, FALSE)
      category == ExtensionDecl(name, <<CategoryMember("Func", FALSE, TRUE, FALSE, FALSE)>>,
                                "Swift", <<>>)
      plain == ExtensionDecl(name, <<>>, "Swift", <<>>)
  IN {<<plain>>, <<func, category>>}
SourceFiles(name) ==
  {SourceFile(k, name, ds) : k \in SourceFileKinds, ds \in DeclLists(name)}

\* SourceFile::isScriptMode
isScriptMode(SF) == SF.Kind \in {"Main", "REPL"}

\* The class objects passed to addObjCClass and the globals passed to
\* addUsedGlobal.
ClassPtrs == {"ClassA", "ClassB"}
GlobalValue(name, isDeclaration) == [name |-> name, isDeclaration |-> isDeclaration]
UsedGlobals == {GlobalValue("g", FALSE), GlobalValue("extern", TRUE)}

\* An llvm::GlobalVariable holding an array.
GlobalVariable(name, section, linkage, elts) ==
  [name |-> name, section |-> section, linkage |-> linkage, elts |-> elts]

\* The loop of emitSourceFile over SF.Decls, from element i on.
RECURSIVE emitSourceFile_decls(_, _, _, _)
emitSourceFile_decls(d, SF, debugInfo, i) ==
  IF i > Len(SF.Decls) \/ d.gone THEN d
  ELSE emitSourceFile_decls(
         emitGlobalDecl_body(d, SF.Decls[i], debugInfo, [n \in 0..2 |-> "abort"]),
         SF, debugInfo, i + 1)

\* The instructions poking one of argc and argv into its global.
pokeArgument(fnParameterName, accessorName) ==
  <<Call(accessorName), Store(fnParameterName)>>

\* The interop setup of main calling the category initializer first
emitSourceFile_interop_CategoriesFirst(classes, categories, opts) ==
  IF opts.ObjCInterop /\ opts.UseJIT
  THEN (IF categories # <<>> THEN <<emitObjCCategoryInitializer(categories)>>
        ELSE <<>>)
       \o (IF classes # <<>> THEN <<emitObjCClassInitializer(classes)>> ELSE <<>>)
  ELSE <<>>

\* The Objective-C runtime interop setup of main: the initializers it
\* synthesizes, in the order main calls them.
emitSourceFile_interop(classes, categories, opts) ==
  IF opts.ObjCInterop /\ opts.UseJIT
  THEN (IF classes # <<>> THEN <<emitObjCClassInitializer(classes)>> ELSE <<>>)
       \o (IF categories # <<>> THEN <<emitObjCCategoryInitializer(categories)>>
           ELSE <<>>)
  ELSE <<>>

\* The part of emitSourceFile emitting main() for a file in script mode:
\* the functions it adds to the module.
emitSourceFile_main(classes, categories, opts, topLevelCodeFn) ==
  LET inits == emitSourceFile_interop(classes, categories, opts)
      body == pokeArgument("argc", "_TFSsa6C_ARGCVSs5Int32")
              \o pokeArgument("argv", "_TFSsa6C_ARGVGVSs13UnsafePointerVSs7CString_")
              \o [i \in 1..Len(inits) |-> Call(inits[i].name)]
              \o (IF topLevelCodeFn # {} THEN <<Call("top_level_code")>> ELSE <<>>)
              \o <<Ret("0")>>
  IN {Function("main", "external", <<body>>)}
       \cup {inits[i] : i \in 1..Len(inits)}

\* The name of the initializer of a library file.
initFnName(SF) == "module.init." \o SF.name

\* The part of emitSourceFile after main() taking a REPL file for a
\* library file
emitSourceFile_init_MainOnly(fns, globals, SF) ==
  LET topLevelCodeFn == getFunctionNamed(fns, "top_level_code")
      initFn == Function(initFnName(SF), "external",
                         << <<Call("top_level_code"), Ret("void")>> >>)
  IN IF topLevelCodeFn = {} THEN [Functions |-> fns, Globals |-> globals]
     ELSE IF SF.Kind = "Main"
     THEN [Functions |-> fns, Globals |-> globals]
     ELSE IF isTrivialGlobalInit(CHOOSE f \in topLevelCodeFn : TRUE)
     THEN [Functions |-> fns \ topLevelCodeFn, Globals |-> globals]
     ELSE [Functions |-> fns \cup {initFn},
           Globals |-> Append(globals,
             GlobalVariable("llvm.global_ctors", "", "appending",
                            <<[priority |-> 1, fn |-> initFn.name]>>))]

\* The part of emitSourceFile after main(): the initializer of a library
\* file and its entry in llvm.global_ctors.
emitSourceFile_init(fns, globals, SF) ==
  LET topLevelCodeFn == getFunctionNamed(fns, "top_level_code")
      initFn == Function(initFnName(SF), "external",
                         << <<Call("top_level_code"), Ret("void")>> >>)
  IN IF topLevelCodeFn = {} THEN [Functions |-> fns, Globals |-> globals]
     ELSE IF SF.Kind = "Main" \/ SF.Kind = "REPL"
     THEN [Functions |-> fns, Globals |-> globals]
     ELSE IF isTrivialGlobalInit(CHOOSE f \in topLevelCodeFn : TRUE)
     THEN [Functions |-> fns \ topLevelCodeFn, Globals |-> globals]
     ELSE [Functions |-> fns \cup {initFn},
           Globals |-> Append(globals,
             GlobalVariable("llvm.global_ctors", "", "appending",
                            <<[priority |-> 1, fn |-> initFn.name]>>))]

\* emitGlobalList keeping an array for an empty list
emitGlobalList_EmptyToo(g, list, name, section, linkage) ==
  LET var == GlobalVariable(name, section, linkage,
               [i \in 1..Len(list) |-> [value |-> list[i], ty |-> "Int8PtrTy"]])
  IN [Globals |-> Append(g.Globals, var),
      LLVMUsed |-> IF linkage \in {"internal", "private"}
                   THEN Append(g.LLVMUsed, GlobalValue(name, FALSE))
                   ELSE g.LLVMUsed]

\* emitGlobalList on the module's arrays and LLVMUsed.
emitGlobalList(g, list, name, section, linkage) ==
  IF list = <<>> THEN g
  ELSE
    LET var == GlobalVariable(name, section, linkage,
                 [i \in 1..Len(list) |-> [value |-> list[i], ty |-> "Int8PtrTy"]])
    IN [Globals |-> Append(g.Globals, var),
        LLVMUsed |-> IF linkage \in {"internal", "private"}
                     THEN Append(g.LLVMUsed, GlobalValue(name, FALSE))
                     ELSE g.LLVMUsed]

\* What a synthesis pass leaves for the properties to read: the pass, the
\* file it was given, what top_level_code was when it started, the number
\* of files emitted and whether emitGlobalLists has run.
Pass(op, SF, topLevel, files, finished) ==
  [op |-> op, SF |-> SF, topLevel |-> topLevel, files |-> files,
   finished |-> finished]
NoPass == Pass("none", NoSourceFile, "absent", 0, FALSE)
UnitIdle ==
  /\ ObjCClasses = <<>>
  /\ LLVMUsed = <<>>
  /\ Functions = {}
  /\ Globals = <<>>
  /\ Opts = [ObjCInterop |-> FALSE, UseJIT |-> FALSE]
  /\ pass = NoPass

----------------------------------------------------------------------------
(* Global strings                                                           *)

MaxStrLen == 2
MaxCalls == 3

\* The contents a string may have; "nul" is an embedded null.
Chars == {"a", "nul"}
StringData == UNION {[1..n -> Chars] : n \in 0..MaxStrLen}

\* llvm::ConstantDataArray::getString: the data with a trailing null.
getString(data) == Append(data, "nul")

\* The private constant global made for a string.
StringGlobal(init) ==
  [init |-> init, ty |-> [array |-> "i8", size |-> Len(init)],
   constant |-> TRUE, linkage |-> "private", unnamedAddr |-> TRUE]

\* llvm::ConstantExpr::getInBoundsGetElementPtr on a global of the module.
getInBoundsGetElementPtr(global, indices) ==
  [global |-> global, indices |-> indices]
NullAddress == getInBoundsGetElementPtr(0, <<>>)

StringIdle ==
  /\ GlobalStrings = [data \in StringData |-> NullAddress]
  /\ StringGlobals = <<>>
  /\ asked = <<>>

----------------------------------------------------------------------------
(* Name lookup requests                                                     *)

nullptr == "nullptr"

\* llvm::Optional
None == [hasValue |-> FALSE, value |-> nullptr]
Some(v) == [hasValue |-> TRUE, value |-> v]

\* The nominal type declarations a SuperclassDeclRequest is made for, the
\* class declarations a superclass may be, the extensions an
\* ExtendedNominalRequest is made for and the nominals they may extend.
RequestNominals ==
  {[dk |-> "Class", name |-> "C"], [dk |-> "Protocol", name |-> "P"],
   [dk |-> "Struct", name |-> "S"]}
SuperclassDecls == {nullptr, "Base", "Other"}
RequestExtensions == {[dk |-> "Extension", name |-> "ext"]}
ExtendedNominals == {nullptr, "NominalA", "NominalB"}

\* The declarations that have a LazySemanticInfo.SuperclassDecl.
HasSuperclassDecl(nominalDecl) == nominalDecl.dk \in {"Class", "Protocol"}

\* llvm::PointerIntPair
PointerIntPair(pointer, int) == [pointer |-> pointer, int |-> int]

\* What the last call of a request function was and what it returned, and
\* for each subject the value cacheResult was given last (<<>> before the
\* first call).
Lookup(op, subject, val, result, given) ==
  [op |-> op, subject |-> subject, value |-> val, result |-> result,
   given |-> given]
NoLookup ==
  Lookup("none", [dk |-> "none", name |-> "none"], nullptr, None,
         [x \in RequestNominals \cup RequestExtensions |-> <<>>])

LookupIdle ==
  /\ ExtendedNominal = [ext \in RequestExtensions |-> nullptr]
  /\ LazySemanticInfo =
       [d \in {n \in RequestNominals : HasSuperclassDecl(n)} |->
          [SuperclassDecl |-> PointerIntPair(nullptr, FALSE)]]
  /\ lookup = NoLookup

----------------------------------------------------------------------------
(* Type metadata addressing                                                 *)

\* The types metadata is requested for: a struct, a class with Swift
\* metadata, a class of a Clang module, bound generic classes of both
\* origins, a builtin type and an unbound generic type.
UnboundGeneric(d) == TypeNode("UnboundGeneric", d, <<>>, <<>>)
ForeignClass == Decl("Class", FALSE, <<>>, "ClangModuleUnit")
MetadataTypes ==
  {Nominal(ModuleScope("Struct")), Nominal(ModuleScope("Class")),
   Nominal(ForeignClass), BoundGeneric(ModuleScope("Class"), <<Builtin>>),
   BoundGeneric(ForeignClass, <<Builtin>>), Builtin,
   UnboundGeneric(ModuleScope("Struct"))}

\* isa<ClassType>, isa<BoundGenericClassType>
isClassType(type) == type.tk = "Nominal" /\ type.decl.dk = "Class"
isBoundGenericClassType(type) == type.tk = "BoundGeneric" /\ type.decl.dk = "Class"

\* hasKnownSwiftMetadata: a class imported from a Clang module has none
hasKnownSwiftMetadata(decl) == decl.unit # "ClangModuleUnit"

\* The IR types of metadata objects; each pointer type points to its struct.
TypeMetadataPatternStructTy == Ty("TypeMetadataPatternStructTy")
TypeMetadataPatternPtrTy == getPointerTo(TypeMetadataPatternStructTy)
TypeMetadataStructTy == Ty("TypeMetadataStructTy")
TypeMetadataPtrTy == getPointerTo(TypeMetadataStructTy)
FullHeapMetadataStructTy == Ty("FullHeapMetadataStructTy")
FullHeapMetadataPtrTy == getPointerTo(FullHeapMetadataStructTy)
FullTypeMetadataStructTy == Ty("FullTypeMetadataStructTy")
FullTypeMetadataPtrTy == getPointerTo(FullTypeMetadataStructTy)

\* The storage types a caller defines metadata with: none, a type of its
\* own, the full metadata type.
MetadataDefTy == Ty("MetadataDefTy")
MetadataStorageTypes == {NullTy, MetadataDefTy, FullTypeMetadataStructTy}

\* LinkEntity::forObjCClass, LinkEntity::forTypeMetadata
forObjCClass(decl) == LinkEntity("ObjCClass", decl, Builtin, "External")
forTypeMetadata(type, isIndirect, isPattern) ==
  [kind |-> "TypeMetadata", decl |-> NoDecl, type |-> type, sil |-> "External",
   isIndirect |-> isIndirect, isPattern |-> isPattern]
MetadataKeys ==
  {forObjCClass(ForeignClass)}
    \cup {forTypeMetadata(t, i, p) : t \in MetadataTypes, i \in BOOLEAN, p \in BOOLEAN}

Layout(defaultVarTy, defaultVarPtrTy, adjustmentIndex, ObjCClass) ==
  [defaultVarTy |-> defaultVarTy, defaultVarPtrTy |-> defaultVarPtrTy,
   adjustmentIndex |-> adjustmentIndex, ObjCClass |-> ObjCClass]

\* The override for indirect metadata keeping the adjustment of the
\* direct form
indirectLayout_KeepAdjustment(l, isIndirect) ==
  IF isIndirect
  THEN [l EXCEPT !.defaultVarTy = l.defaultVarPtrTy,
                 !.defaultVarPtrTy = getPointerTo(l.defaultVarPtrTy)]
  ELSE l

\* getAddrOfTypeMetadata, "when indirect, this is always a pointer variable
\* and has no adjustment"
indirectLayout(l, isIndirect) ==
  IF isIndirect
  THEN [l EXCEPT !.defaultVarTy = l.defaultVarPtrTy,
                 !.defaultVarPtrTy = getPointerTo(l.defaultVarPtrTy),
                 !.adjustmentIndex = 0]
  ELSE l

\* getAddrOfTypeMetadata: the choice of the default type, the pointer type,
\* the adjustment and the Objective-C class.
metadataLayout(concreteType, isIndirect, isPattern) ==
  LET direct ==
        IF isPattern THEN
          Layout(TypeMetadataPatternStructTy, TypeMetadataPatternPtrTy, 0, NoDecl)
        ELSE IF isClassType(concreteType)
                /\ ~hasKnownSwiftMetadata(concreteType.decl) THEN
          Layout(TypeMetadataStructTy, TypeMetadataPtrTy, 0, concreteType.decl)
        ELSE IF isClassType(concreteType)
                \/ isBoundGenericClassType(concreteType) THEN
          Layout(FullHeapMetadataStructTy, FullHeapMetadataPtrTy, 2, NoDecl)
        ELSE
          Layout(FullTypeMetadataStructTy, FullTypeMetadataPtrTy, 1, NoDecl)
  IN indirectLayout(direct, isIndirect)

\* An address: a value and, when it is an in-bounds element access into
\* that value, the element index (0 for the value itself).
Address(base, index) == [base |-> base, index |-> index]

\* The adjustment applied whatever the caller asked for
adjustAddress_Always(addr, adjustmentIndex, storageType) ==
  IF adjustmentIndex # 0 THEN Address(addr, adjustmentIndex)
  ELSE Address(addr, 0)

\* getAddrOfTypeMetadata, "do an adjustment if necessary"
adjustAddress(addr, adjustmentIndex, storageType) ==
  IF adjustmentIndex # 0 /\ storageType = NullTy
  THEN Address(addr, adjustmentIndex)
  ELSE Address(addr, 0)

\* A request for the metadata of a type and the address it returned.
MetadataRequest(type, isIndirect, isPattern, storageType, layout, key, addr) ==
  [type |-> type, isIndirect |-> isIndirect, isPattern |-> isPattern,
   storageType |-> storageType, layout |-> layout, key |-> key, addr |-> addr,
   requested |-> TRUE]
NoMetadata ==
  [MetadataRequest(Builtin, FALSE, FALSE, NullTy, Layout(NullTy, NullTy, 0, NoDecl),
                   NoEntity, Address(NullHandle, 0))
     EXCEPT !.requested = FALSE]

NoRequest ==
  [op |-> "none", key |-> NoEntity, def |-> NullTy, path |-> "none",
   collided |-> FALSE, result |-> NullHandle, stale |-> 0]

\* The state a request works on.
CacheState == [syms |-> syms, globals |-> GlobalVars, handles |-> handles,
               hadError |-> hadError, assertViolated |-> assertViolated]

\* The process is gone once an assertion has failed in a build with
\* assertions.
aborted == assertViolated /\ ~ndebug

Init ==
  /\ syms \in ForeignModules
  /\ GlobalFuncs = [k \in FuncKeys |-> 0]
  /\ GlobalVars = [k \in VarKeys |-> 0]
  /\ handles = {}
  /\ hadError = FALSE
  /\ assertViolated = FALSE
  /\ ndebug \in BOOLEAN
  /\ last = NoRequest
  /\ entity = NoEntity
  /\ info = NoInfo
  /\ AccessorIdle
  /\ DispatchIdle
  /\ UnitIdle
  /\ StringIdle
  /\ LookupIdle
  /\ metadata = NoMetadata

\* getAddrOfFunction never looking at GlobalFuncs
getAddrOfFunction_Uncached(k) ==
  /\ ~aborted
  /\ LET link == LinkInfo_get(k)
         cf == LinkInfo_createFunction(syms, hadError, link, FnTy)
         res == Handle(k, cf.result, getType(cf.syms[cf.result]), FALSE)
     IN
     /\ Len(cf.syms) <= MaxSyms
     /\ syms' = cf.syms
     /\ hadError' = cf.hadError
     /\ GlobalFuncs' = [GlobalFuncs EXCEPT ![k] = cf.result]
     /\ handles' = handles \cup {res}
     /\ last' = [op |-> "getAddrOfFunction", key |-> k, def |-> NullTy,
                 path |-> "create", collided |-> cf.collided,
                 result |-> res, stale |-> 0]
  /\ UNCHANGED <<GlobalVars, assertViolated, ndebug, entity, info, accessorVars,
                 dispatchVars, unitVars, metadata,
               stringVars, lookupVars>>

\* IRGenModule::getAddrOfFunction (and, with the same body over
\* GlobalFuncs, getAddrOfInjectionFunction, getAddrOfConstructor,
\* getAddrOfDestructor, getAddrOfValueWitness, getAddrOfGetter and
\* getAddrOfSetter).
getAddrOfFunction(k) ==
  /\ ~aborted
  /\ LET entry == GlobalFuncs[k] IN
     IF entry # 0 THEN
       LET res == Handle(k, entry, getType(syms[entry]), FALSE) IN
       /\ handles' = handles \cup {res}
       /\ last' = [op |-> "getAddrOfFunction", key |-> k, def |-> NullTy,
                   path |-> "hit", collided |-> FALSE, result |-> res,
                   stale |-> 0]
       /\ UNCHANGED <<syms, GlobalFuncs, hadError>>
     ELSE
       LET link == LinkInfo_get(k)
           cf == LinkInfo_createFunction(syms, hadError, link, FnTy)
           res == Handle(k, cf.result, getType(cf.syms[cf.result]), FALSE)
       IN
       /\ Len(cf.syms) <= MaxSyms
       /\ syms' = cf.syms
       /\ hadError' = cf.hadError
       /\ GlobalFuncs' = [GlobalFuncs EXCEPT ![k] = cf.result]
       /\ handles' = handles \cup {res}
       /\ last' = [op |-> "getAddrOfFunction", key |-> k, def |-> NullTy,
                   path |-> "create", collided |-> cf.collided,
                   result |-> res, stale |-> 0]
  /\ UNCHANGED <<GlobalVars, assertViolated, ndebug, entity, info, accessorVars, dispatchVars, unitVars,
               metadata,
               stringVars, lookupVars>>

\* IRGenModule::getAddrOfGlobalVariable
getAddrOfGlobalVariable(k) ==
  /\ ~aborted
  /\ LET entry == GlobalVars[k] IN
     IF entry # 0 THEN
       LET res == Handle(k, entry, getType(syms[entry]), FALSE) IN
       /\ handles' = handles \cup {res}
       /\ last' = [op |-> "getAddrOfGlobalVariable", key |-> k,
                   def |-> NullTy, path |-> "hit", collided |-> FALSE,
                   result |-> res, stale |-> 0]
       /\ UNCHANGED <<syms, GlobalVars, hadError>>
     ELSE
       LET link == LinkInfo_get(k)
           cv == LinkInfo_createVariable(syms, hadError, link, StorageTy)
           res == Handle(k, cv.result, getType(cv.syms[cv.result]), FALSE)
       IN
       /\ Len(cv.syms) <= MaxSyms
       /\ syms' = cv.syms
       /\ hadError' = cv.hadError
       /\ GlobalVars' = [GlobalVars EXCEPT ![k] = cv.result]
       /\ handles' = handles \cup {res}
       /\ last' = [op |-> "getAddrOfGlobalVariable", key |-> k,
                   def |-> NullTy, path |-> "create",
                   collided |-> cv.collided, result |-> res, stale |-> 0]
  /\ UNCHANGED <<GlobalFuncs, assertViolated, ndebug, entity, info, accessorVars, dispatchVars, unitVars,
               metadata,
               stringVars, lookupVars>>

\* A request that goes through getAddrOfLLVMVariable over GlobalVars.
RequestLLVMVariable(op, k, definitionType, defaultType, pointerToDefaultType) ==
  /\ ~aborted
  /\ LET o == getAddrOfLLVMVariable(CacheState, ndebug, k, definitionType,
                                    defaultType, pointerToDefaultType)
     IN
     /\ Len(o.syms) <= MaxSyms
     /\ syms' = o.syms
     /\ GlobalVars' = o.globals
     /\ handles' = o.handles
     /\ hadError' = o.hadError
     /\ assertViolated' = o.assertViolated
     /\ last' = [op |-> op, key |-> k, def |-> definitionType,
                 path |-> o.path, collided |-> o.collided,
                 result |-> o.result, stale |-> o.stale]
  /\ UNCHANGED <<GlobalFuncs, ndebug, entity, info, accessorVars, dispatchVars, unitVars,
               metadata,
               stringVars, lookupVars>>

\* IRGenModule::getAddrOfValueWitnessTable
getAddrOfValueWitnessTable(definitionType) ==
  RequestLLVMVariable("getAddrOfValueWitnessTable", vwtKey, definitionType,
                      WitnessTableTy, WitnessTablePtrTy)

Next ==
  \/ \E k \in FuncKeys : getAddrOfFunction(k)
  \/ getAddrOfGlobalVariable(varKey)
  \/ \E t \in DefinitionTypes \cup {NullTy} : getAddrOfValueWitnessTable(t)

Spec == Init /\ [][Next]_vars

----------------------------------------------------------------------------
(* The linkage policy applied to every entity                               *)

LinkInit ==
  /\ syms = <<>>
  /\ GlobalFuncs = [k \in FuncKeys |-> 0]
  /\ GlobalVars = [k \in VarKeys |-> 0]
  /\ handles = {}
  /\ hadError = FALSE
  /\ assertViolated = FALSE
  /\ ndebug = FALSE
  /\ last = NoRequest
  /\ entity \in Entities
  /\ info = NoInfo
  /\ AccessorIdle
  /\ DispatchIdle
  /\ UnitIdle
  /\ StringIdle
  /\ LookupIdle
  /\ metadata = NoMetadata

\* LinkInfo::get(IGM, entity)
ApplyLinkInfo ==
  /\ info = NoInfo
  /\ info' = LinkInfo_get(entity)
  /\ UNCHANGED <<entity, cacheVars, accessorVars, dispatchVars, unitVars, metadata,
               stringVars, lookupVars>>

LinkNext == ApplyLinkInfo

LinkSpec == LinkInit /\ [][LinkNext]_vars

----------------------------------------------------------------------------
(* The accessor types derived for every value declaration                   *)

\* The caches and the linkage policy at rest.
CacheIdle ==
  /\ syms = <<>>
  /\ GlobalFuncs = [k \in FuncKeys |-> 0]
  /\ GlobalVars = [k \in VarKeys |-> 0]
  /\ handles = {}
  /\ hadError = FALSE
  /\ assertViolated = FALSE
  /\ last = NoRequest
LinkIdle ==
  /\ entity = NoEntity
  /\ info = NoInfo

AccessorInit ==
  /\ CacheIdle
  /\ ndebug = FALSE
  /\ LinkIdle
  /\ DispatchIdle
  /\ UnitIdle
  /\ StringIdle
  /\ LookupIdle
  /\ metadata = NoMetadata
  /\ value \in AccessorSubjects
  /\ getterType = NoFormal
  /\ setterType = NoFormal

\* a call of getTypeOfGetter(value)
RequestGetterType ==
  /\ getterType = NoFormal
  /\ getterType' = getTypeOfGetter(value)
  /\ UNCHANGED <<value, setterType, cacheVars, linkVars, dispatchVars, unitVars, metadata,
               stringVars, lookupVars>>

\* a call of getTypeOfSetter(value)
RequestSetterType ==
  /\ setterType = NoFormal
  /\ setterType' = getTypeOfSetter(value)
  /\ UNCHANGED <<value, getterType, cacheVars, linkVars, dispatchVars, unitVars, metadata,
               stringVars, lookupVars>>

AccessorNext == RequestGetterType \/ RequestSetterType

AccessorSpec == AccessorInit /\ [][AccessorNext]_vars

----------------------------------------------------------------------------
(* The metadata of one type in one form (direct or indirect, pattern or    *)
(* not), requested for use and for definition                               *)

MetadataInit ==
  /\ syms = <<>>
  /\ GlobalFuncs = [k \in FuncKeys |-> 0]
  /\ GlobalVars = [k \in MetadataKeys |-> 0]
  /\ handles = {}
  /\ hadError = FALSE
  /\ assertViolated = FALSE
  /\ last = NoRequest
  /\ ndebug \in BOOLEAN
  /\ LinkIdle
  /\ AccessorIdle
  /\ DispatchIdle
  /\ UnitIdle
  /\ StringIdle
  /\ LookupIdle
  /\ \E t \in MetadataTypes, isIndirect \in BOOLEAN, isPattern \in BOOLEAN :
       metadata = [NoMetadata EXCEPT !.type = t, !.isIndirect = isIndirect,
                                     !.isPattern = isPattern]

\* IRGenModule::getAddrOfTypeMetadata(concreteType, isIndirect, isPattern,
\* storageType)
getAddrOfTypeMetadataOf(concreteType, isIndirect, isPattern, storageType) ==
  /\ ~aborted
  /\ LET assertOK == isPattern \/ concreteType.tk # "UnboundGeneric"
     IN
     IF ~assertOK /\ ~ndebug THEN
       /\ assertViolated' = TRUE
       /\ metadata' = MetadataRequest(concreteType, isIndirect, isPattern,
                                      storageType, NoMetadata.layout, NoEntity,
                                      NoMetadata.addr)
       /\ UNCHANGED <<syms, GlobalVars, handles, hadError, last>>
     ELSE
       LET l == metadataLayout(concreteType, isIndirect, isPattern)
           key == IF l.ObjCClass # NoDecl THEN forObjCClass(l.ObjCClass)
                  ELSE forTypeMetadata(concreteType, isIndirect, isPattern)
           c == [CacheState EXCEPT !.assertViolated = assertViolated \/ ~assertOK]
           o == getAddrOfLLVMVariable(c, ndebug, key, storageType,
                                      l.defaultVarTy, l.defaultVarPtrTy)
       IN
       /\ Len(o.syms) <= MaxSyms
       /\ syms' = o.syms
       /\ GlobalVars' = o.globals
       /\ handles' = o.handles
       /\ hadError' = o.hadError
       /\ assertViolated' = o.assertViolated
       /\ last' = [op |-> "getAddrOfTypeMetadata", key |-> key,
                   def |-> storageType, path |-> o.path,
                   collided |-> o.collided, result |-> o.result,
                   stale |-> o.stale]
       /\ metadata' = MetadataRequest(concreteType, isIndirect, isPattern,
                                      storageType, l, key,
                                      IF o.path = "abort" THEN NoMetadata.addr
                                      ELSE adjustAddress(o.result,
                                                         l.adjustmentIndex,
                                                         storageType))
  /\ UNCHANGED <<GlobalFuncs, ndebug, linkVars, accessorVars, dispatchVars, unitVars,
               stringVars, lookupVars>>

\* The request for the type and the form the run is about.
getAddrOfTypeMetadata(storageType) ==
  getAddrOfTypeMetadataOf(metadata.type, metadata.isIndirect,
                          metadata.isPattern, storageType)

MetadataNext ==
  \E storageType \in MetadataStorageTypes : getAddrOfTypeMetadata(storageType)

MetadataSpec == MetadataInit /\ [][MetadataNext]_vars

\* The uses of the metadata of one type in all its forms: the run is about
\* a type, and each request chooses isIndirect and isPattern.
MetadataFormsInit ==
  /\ MetadataInit
  /\ ~metadata.isIndirect
  /\ ~metadata.isPattern

MetadataFormsNext ==
  \E isIndirect \in BOOLEAN, isPattern \in BOOLEAN :
    getAddrOfTypeMetadataOf(metadata.type, isIndirect, isPattern, NullTy)

MetadataFormsSpec == MetadataFormsInit /\ [][MetadataFormsNext]_vars

----------------------------------------------------------------------------
(* The dispatcher applied to a declaration of the translation unit          *)

\* The module when a declaration is dispatched: nothing pending, or the
\* category of an extension of an Objective-C class emitted before.
DispatchInit ==
  /\ CacheIdle
  /\ ndebug \in BOOLEAN
  /\ LinkIdle
  /\ AccessorIdle
  /\ metadata = NoMetadata
  /\ emitted = <<>>
  /\ \/ ObjCCategories = <<>> /\ ObjCCategoryDecls = <<>>
     \/ /\ ObjCCategories = <<CategoryData(EarlierExtension)>>
        /\ ObjCCategoryDecls = <<EarlierExtension>>
  /\ DebugInfo \in BOOLEAN
  /\ unreachableHit = FALSE
  /\ dispatched = NoDispatch
  /\ UnitIdle
  /\ StringIdle
  /\ LookupIdle

\* IRGenModule::emitGlobalDecl(D); ub is what reaching llvm_unreachable
\* does, at the switch itself (ub[0]) and at each member of an extension.
emitGlobalDecl(D, ub) ==
  /\ LET c == emitGlobalDecl_case(D, DebugInfo)
         d0 == Dispatch(emitted, ObjCCategories, ObjCCategoryDecls,
                        unreachableHit, FALSE, <<>>)
         d == emitGlobalDecl_body(d0, D, DebugInfo, ub)
     IN /\ emitted' = d.emitted
        /\ ObjCCategories' = d.ObjCCategories
        /\ ObjCCategoryDecls' = d.ObjCCategoryDecls
        /\ unreachableHit' = d.unreachableHit
        /\ dispatched' = [decl |-> D, case |-> c, calls |-> d.calls,
                          gone |-> d.gone]
  /\ UNCHANGED <<DebugInfo, cacheVars, linkVars, accessorVars, metadata,
               unitVars,
               stringVars, lookupVars>>

\* The choices of what llvm_unreachable does that matter for D: one where
\* it is reached, "abort" elsewhere.
UnreachableChoices(D, nd) ==
  {ub \in [0..2 -> {"abort", "goon"}] :
     \A i \in 0..2 :
       LET reached ==
             IF i = 0 THEN emitGlobalDecl_case(D, FALSE) = "unreachable"
             ELSE /\ D.dk = "Extension"
                  /\ i <= Len(D.members)
                  /\ emitExtension_case(D.members[i]) = "unreachable"
       IN ub[i] \in (IF reached THEN unreachableOutcomes(nd) ELSE {"abort"})}

\* One declaration is dispatched in a run of the model.
DispatchNext ==
  /\ dispatched = NoDispatch
  /\ \E D \in GlobalDecls : \E ub \in UnreachableChoices(D, ndebug) :
       emitGlobalDecl(D, ub)

DispatchSpec == DispatchInit /\ [][DispatchNext]_vars

----------------------------------------------------------------------------
(* The category initializer applied to the pending category declarations    *)

\* The module when the initializer is synthesized: one or two extensions
\* are pending, with their category records.
CategoryInit ==
  /\ CacheIdle
  /\ ndebug = FALSE
  /\ LinkIdle
  /\ AccessorIdle
  /\ metadata = NoMetadata
  /\ emitted = <<>>
  /\ \E e \in CategoryExtensions :
       ObjCCategoryDecls \in {<<e>>, <<EarlierCategory, e>>}
  /\ ObjCCategories =
       [i \in 1..Len(ObjCCategoryDecls) |-> CategoryData(ObjCCategoryDecls[i])]
  /\ DebugInfo = FALSE
  /\ unreachableHit = FALSE
  /\ dispatched = NoDispatch
  /\ UnitIdle
  /\ StringIdle
  /\ LookupIdle

\* emitObjCCategoryInitializer(IGM, ObjCCategoryDecls)
SynthesizeCategoryInitializer ==
  /\ pass = NoPass
  /\ Functions' = Functions \cup {emitObjCCategoryInitializer(ObjCCategoryDecls)}
  /\ pass' = [pass EXCEPT !.op = "emitObjCCategoryInitializer"]
  /\ UNCHANGED <<ObjCClasses, LLVMUsed, Globals, Opts, cacheVars, linkVars,
                 accessorVars, dispatchVars, metadata,
               stringVars, lookupVars>>

CategoryNext == SynthesizeCategoryInitializer

CategorySpec == CategoryInit /\ [][CategoryNext]_vars

----------------------------------------------------------------------------
(* The synthesis passes applied to the files of one module                  *)

\* The module before its first file is emitted: SIL lowering has left a
\* top_level_code function or none; the options are fixed.
UnitInit ==
  /\ CacheIdle
  /\ ndebug \in BOOLEAN
  /\ LinkIdle
  /\ AccessorIdle
  /\ metadata = NoMetadata
  /\ DispatchIdle
  /\ ObjCClasses = <<>>
  /\ LLVMUsed = <<>>
  /\ Functions \in {{}} \cup {{TopLevelCode(b)} : b \in TopLevelBodies}
  /\ Globals = <<>>
  /\ Opts \in [ObjCInterop : BOOLEAN, UseJIT : BOOLEAN]
  /\ pass = NoPass
  /\ StringIdle
  /\ LookupIdle

\* What top_level_code is in a set of functions: absent, one block holding
\* one return, or anything else.
topLevelOf(fns) ==
  LET f == getFunctionNamed(fns, "top_level_code") IN
  IF f = {} THEN "absent"
  ELSE IF (CHOOSE x \in f : TRUE).blocks = << <<Ret("void")>> >> THEN "trivial"
  ELSE "nontrivial"

\* IRGenModule::emitSourceFile(SF, StartElem)
emitSourceFile(SF, StartElem) ==
  /\ LET d0 == Dispatch(emitted, ObjCCategories, ObjCCategoryDecls,
                        unreachableHit, FALSE, <<>>)
         d == emitSourceFile_decls(d0, SF, DebugInfo, StartElem + 1)
         topLevelCodeFn == getFunctionNamed(Functions, "top_level_code")
         withMain == IF isScriptMode(SF)
                     THEN Functions \cup
                            emitSourceFile_main(ObjCClasses, d.ObjCCategoryDecls,
                                                Opts, topLevelCodeFn)
                     ELSE Functions
         r == emitSourceFile_init(withMain, Globals, SF)
     IN /\ emitted' = d.emitted
        /\ ObjCCategories' = d.ObjCCategories
        /\ ObjCCategoryDecls' = d.ObjCCategoryDecls
        /\ unreachableHit' = d.unreachableHit
        /\ Functions' = r.Functions
        /\ Globals' = r.Globals
        /\ pass' = Pass("emitSourceFile", SF, topLevelOf(Functions),
                        pass.files + 1, FALSE)
  /\ UNCHANGED <<ObjCClasses, LLVMUsed, Opts, DebugInfo, dispatched,
                 cacheVars, linkVars, accessorVars, metadata,
               stringVars, lookupVars>>

\* addObjCClass forgetting the classes announced before
addObjCClass_Replace(classPtr) ==
  /\ ObjCClasses' = <<classPtr>>
  /\ pass' = [pass EXCEPT !.op = "addObjCClass"]
  /\ UNCHANGED <<LLVMUsed, Functions, Globals, Opts, cacheVars, linkVars,
                 accessorVars, dispatchVars, metadata,
               stringVars, lookupVars>>

\* IRGenModule::addObjCClass(classPtr)
addObjCClass(classPtr) ==
  /\ ObjCClasses' = Append(ObjCClasses, classPtr)
  /\ pass' = [pass EXCEPT !.op = "addObjCClass"]
  /\ UNCHANGED <<LLVMUsed, Functions, Globals, Opts, cacheVars, linkVars,
                 accessorVars, dispatchVars, metadata,
               stringVars, lookupVars>>

\* IRGenModule::addUsedGlobal(global)
addUsedGlobal(global) ==
  /\ assertViolated' = (assertViolated \/ global.isDeclaration)
  /\ LLVMUsed' = IF global.isDeclaration /\ ~ndebug THEN LLVMUsed
                 ELSE Append(LLVMUsed, global)
  /\ pass' = [pass EXCEPT !.op = "addUsedGlobal"]
  /\ UNCHANGED <<ObjCClasses, Functions, Globals, Opts, syms, GlobalFuncs,
                 GlobalVars, handles, hadError, ndebug, last, linkVars,
                 accessorVars, dispatchVars, metadata,
               stringVars, lookupVars>>

\* IRGenModule::emitGlobalLists
emitGlobalLists ==
  /\ LET g0 == [Globals |-> Globals, LLVMUsed |-> LLVMUsed]
         g1 == emitGlobalList(g0, ObjCClasses, "objc_classes",
                 "__DATA, __objc_classlist, regular, no_dead_strip", "internal")
         g2 == emitGlobalList(g1, ObjCCategories, "objc_categories",
                 "__DATA, __objc_catlist, regular, no_dead_strip", "internal")
         g3 == emitGlobalList(g2, ObjCClasses, "objc_non_lazy_classes",
                 "__DATA, __objc_nlclslist, regular, no_dead_strip", "internal")
         g4 == emitGlobalList(g3, g3.LLVMUsed, "llvm.used", "llvm.metadata",
                              "appending")
     IN /\ Globals' = g4.Globals
        /\ LLVMUsed' = g4.LLVMUsed
  /\ pass' = [pass EXCEPT !.op = "emitGlobalLists", !.finished = TRUE]
  /\ UNCHANGED <<ObjCClasses, Functions, Opts, cacheVars, linkVars,
                 accessorVars, dispatchVars, metadata,
               stringVars, lookupVars>>

\* The files of a module are emitted one after the other, at most one of
\* them in script mode; classes, each once, and used globals are announced
\* in between; emitGlobalLists ends the module.
UnitNext ==
  /\ ~pass.finished
  /\ ~aborted
  /\ \/ /\ pass.files < MaxFiles
        /\ \E SF \in SourceFiles(FileNames[pass.files + 1]) :
             /\ isScriptMode(SF) => getFunctionNamed(Functions, "main") = {}
             /\ \E StartElem \in 0..Len(SF.Decls) : emitSourceFile(SF, StartElem)
     \/ /\ Len(ObjCClasses) < MaxClasses
        /\ \E classPtr \in ClassPtrs :
             /\ \A i \in 1..Len(ObjCClasses) : ObjCClasses[i] # classPtr
             /\ addObjCClass(classPtr)
     \/ /\ Len(LLVMUsed) < MaxUsed
        /\ \E global \in UsedGlobals : addUsedGlobal(global)
     \/ emitGlobalLists

UnitSpec == UnitInit /\ [][UnitNext]_vars

----------------------------------------------------------------------------
(* Requests for global strings                                              *)

StringInit ==
  /\ CacheIdle
  /\ ndebug \in BOOLEAN
  /\ LinkIdle
  /\ AccessorIdle
  /\ metadata = NoMetadata
  /\ DispatchIdle
  /\ UnitIdle
  /\ StringIdle
  /\ LookupIdle

\* IRGenModule::getAddrOfGlobalString without the look into GlobalStrings.
getAddrOfGlobalString_Uncached(data) ==
  LET init == getString(data)
      address == getInBoundsGetElementPtr(Len(StringGlobals) + 1, <<0, 0>>)
  IN /\ StringGlobals' = Append(StringGlobals, StringGlobal(init))
     /\ GlobalStrings' = [GlobalStrings EXCEPT ![data] = address]
     /\ asked' = Append(asked, [data |-> data, address |-> address])
     /\ UNCHANGED <<cacheVars, linkVars, accessorVars, dispatchVars, metadata,
                    unitVars, lookupVars>>

\* IRGenModule::getAddrOfGlobalString
getAddrOfGlobalString(data) ==
  LET entry == GlobalStrings[data] IN
  /\ IF entry # NullAddress THEN
       /\ asked' = Append(asked, [data |-> data, address |-> entry])
       /\ UNCHANGED <<GlobalStrings, StringGlobals>>
     ELSE
       LET init == getString(data)
           address == getInBoundsGetElementPtr(Len(StringGlobals) + 1, <<0, 0>>)
       IN /\ StringGlobals' = Append(StringGlobals, StringGlobal(init))
          /\ GlobalStrings' = [GlobalStrings EXCEPT ![data] = address]
          /\ asked' = Append(asked, [data |-> data, address |-> address])
  /\ UNCHANGED <<cacheVars, linkVars, accessorVars, dispatchVars, metadata,
                 unitVars, lookupVars>>

StringNext ==
  /\ Len(asked) < MaxCalls
  /\ \E data \in StringData : getAddrOfGlobalString(data)

StringSpec == StringInit /\ [][StringNext]_vars

----------------------------------------------------------------------------
(* Name lookup requests                                                     *)

LookupInit == StringInit

\* SuperclassDeclRequest::getCachedResult
SuperclassDeclRequest_getCachedResult(nominalDecl) ==
  LET result ==
        IF /\ nominalDecl.dk = "Class"
           /\ LazySemanticInfo[nominalDecl].SuperclassDecl.int
        THEN Some(LazySemanticInfo[nominalDecl].SuperclassDecl.pointer)
        ELSE IF /\ nominalDecl.dk = "Protocol"
                /\ LazySemanticInfo[nominalDecl].SuperclassDecl.int
        THEN Some(LazySemanticInfo[nominalDecl].SuperclassDecl.pointer)
        ELSE None
  IN /\ lookup' = Lookup("SuperclassDeclRequest::getCachedResult", nominalDecl,
                         nullptr, result, lookup.given)
     /\ UNCHANGED <<ExtendedNominal, LazySemanticInfo>>
     /\ UNCHANGED <<cacheVars, linkVars, accessorVars, dispatchVars, metadata,
                    unitVars, stringVars>>

\* SuperclassDeclRequest::cacheResult storing a superclass only when there
\* is one.
SuperclassDeclRequest_cacheResult_NonNull(nominalDecl, val) ==
  /\ LazySemanticInfo' =
       IF HasSuperclassDecl(nominalDecl) /\ val # nullptr
       THEN [LazySemanticInfo EXCEPT
               ![nominalDecl].SuperclassDecl = PointerIntPair(val, TRUE)]
       ELSE LazySemanticInfo
  /\ lookup' = Lookup("SuperclassDeclRequest::cacheResult", nominalDecl, val,
                      None, [lookup.given EXCEPT ![nominalDecl] = <<val>>])
  /\ UNCHANGED ExtendedNominal
  /\ UNCHANGED <<cacheVars, linkVars, accessorVars, dispatchVars, metadata,
                 unitVars, stringVars>>

\* SuperclassDeclRequest::cacheResult
SuperclassDeclRequest_cacheResult(nominalDecl, val) ==
  /\ LET I1 == IF nominalDecl.dk = "Class"
               THEN [LazySemanticInfo EXCEPT
                       ![nominalDecl].SuperclassDecl = PointerIntPair(val, TRUE)]
               ELSE LazySemanticInfo
         I2 == IF nominalDecl.dk = "Protocol"
               THEN [I1 EXCEPT
                       ![nominalDecl].SuperclassDecl = PointerIntPair(val, TRUE)]
               ELSE I1
     IN LazySemanticInfo' = I2
  /\ lookup' = Lookup("SuperclassDeclRequest::cacheResult", nominalDecl, val,
                      None, [lookup.given EXCEPT ![nominalDecl] = <<val>>])
  /\ UNCHANGED ExtendedNominal
  /\ UNCHANGED <<cacheVars, linkVars, accessorVars, dispatchVars, metadata,
                 unitVars, stringVars>>

\* ExtendedNominalRequest::getCachedResult
ExtendedNominalRequest_getCachedResult(ext) ==
  LET result == IF ExtendedNominal[ext] # nullptr
                THEN Some(ExtendedNominal[ext])
                ELSE None
  IN /\ lookup' = Lookup("ExtendedNominalRequest::getCachedResult", ext,
                         nullptr, result, lookup.given)
     /\ UNCHANGED <<ExtendedNominal, LazySemanticInfo>>
     /\ UNCHANGED <<cacheVars, linkVars, accessorVars, dispatchVars, metadata,
                    unitVars, stringVars>>

\* ExtendedNominalRequest::cacheResult storing whatever it is given.
ExtendedNominalRequest_cacheResult_Always(ext, val) ==
  /\ ExtendedNominal' = [ExtendedNominal EXCEPT ![ext] = val]
  /\ lookup' = Lookup("ExtendedNominalRequest::cacheResult", ext, val, None,
                      [lookup.given EXCEPT ![ext] = <<val>>])
  /\ UNCHANGED LazySemanticInfo
  /\ UNCHANGED <<cacheVars, linkVars, accessorVars, dispatchVars, metadata,
                 unitVars, stringVars>>

\* ExtendedNominalRequest::cacheResult
ExtendedNominalRequest_cacheResult(ext, val) ==
  /\ ExtendedNominal' = IF val # nullptr
                        THEN [ExtendedNominal EXCEPT ![ext] = val]
                        ELSE ExtendedNominal
  /\ lookup' = Lookup("ExtendedNominalRequest::cacheResult", ext, val, None,
                      [lookup.given EXCEPT ![ext] = <<val>>])
  /\ UNCHANGED LazySemanticInfo
  /\ UNCHANGED <<cacheVars, linkVars, accessorVars, dispatchVars, metadata,
                 unitVars, stringVars>>

\* The evaluator asks for a cached result or caches one, for any subject,
\* in any order.
LookupNext ==
  \/ \E nominalDecl \in RequestNominals :
       SuperclassDeclRequest_getCachedResult(nominalDecl)
  \/ \E nominalDecl \in RequestNominals : \E val \in SuperclassDecls :
       SuperclassDeclRequest_cacheResult(nominalDecl, val)
  \/ \E ext \in RequestExtensions : ExtendedNominalRequest_getCachedResult(ext)
  \/ \E ext \in RequestExtensions : \E val \in ExtendedNominals :
       ExtendedNominalRequest_cacheResult(ext, val)

LookupSpec == LookupInit /\ [][LookupNext]_vars

----------------------------------------------------------------------------
(* Properties of the artifact cache, checked under Spec                     *)

\* The cache entry of a key, whichever cache holds it.
Cached(k) == IF k \in FuncKeys THEN GlobalFuncs[k] ELSE GlobalVars[k]
\* The symbols constructed by the requests of k, and those still live.
ConstructedFor(k) == {i \in 1..Len(syms) : syms[i].origin = k}
LiveFor(k) == {i \in Live(syms) : syms[i].origin = k}
\* k has been requested: a request of k returned a handle.
Requested(k) == \E h \in handles : h.key = k
\* The pointer-to-default type of a key's requests.
PointerToDefault(k) ==
  IF k = fnKey THEN getPointerTo(FnTy)
  ELSE IF k = varKey THEN getPointerTo(StorageTy)
  ELSE WitnessTablePtrTy

\* C1: after any sequence of use and definition requests, every key that
\* was requested has exactly one live symbol in the module (the cached
\* one; no other live symbol was constructed for the key), and every handle
\* the requests returned refers to that symbol, at the symbol's own type or
\* as a bitcast to the key's pointer-to-default type.
C1_OneLiveSymbolPerKey ==
  \A k \in Keys :
    Requested(k) =>
      /\ Cached(k) \in Live(syms)
      /\ LiveFor(k) \subseteq {Cached(k)}
      /\ \A h \in handles :
           h.key = k =>
             /\ h.sym = Cached(k)
             /\ h.ty \in {getType(syms[h.sym]), PointerToDefault(k)}

\* A key was used, then defined at another type, and is used and defined
\* by handles that all survived the replacement of its symbol.
C1_Witness ==
  /\ last.path = "upgrade"
  /\ \E h \in handles : h.key = vwtKey /\ ~h.def
  /\ \E h \in handles : h.key = vwtKey /\ h.def
  /\ Requested(fnKey)

\* C2 as stated: over the whole lowering no more than one symbol is ever
\* constructed for a key.
C2_Original == \A k \in Keys : Cardinality(ConstructedFor(k)) <= 1

\* C2, amended: at any time at most one symbol constructed for a key is
\* live; a second symbol is constructed for a key only by a definition
\* upgrade, which erases the one before it, so that every symbol
\* constructed for the key but the cached one is erased.
C2_AtMostOneLiveSymbol ==
  \A k \in Keys :
    /\ Cardinality(LiveFor(k)) <= 1
    /\ \A i \in ConstructedFor(k) : i # Cached(k) => ~syms[i].live
    /\ Cardinality(ConstructedFor(k)) > 1 => k \in LLVMVarKeys

\* A definition followed a forward declaration: two symbols were
\* constructed for the key and one is live.
C2_Witness ==
  /\ Cardinality(ConstructedFor(vwtKey)) = 2
  /\ Cardinality(LiveFor(vwtKey)) = 1

\* The step just taken was a definition upgrade of key k.
UpgradeStep(k) ==
  /\ last'.path = "upgrade"
  /\ last'.key = k
  /\ syms' # syms

\* C3 as stated, point (1): the upgrade leaves the stale symbol renamed
\* with a disambiguating suffix.
C3_Original ==
  last.path = "upgrade" =>
    /\ syms[last.stale].name.base = last.key
    /\ syms[last.stale].name.suf >= 1

\* C3, amended: a definition upgrade (1) clears the name of the stale
\* symbol, (2) constructs a fresh symbol with the key's mangled name,
\* linkage, visibility and the definition type, (3) redirects every
\* reference to the stale symbol to the fresh one, (4) removes the stale
\* symbol from the module and (5) leaves the cache entry at the fresh
\* symbol.
C3_DefinitionUpgrade ==
  [][\A k \in LLVMVarKeys :
       UpgradeStep(k) =>
         LET stale == GlobalVars[k]
             fresh == GlobalVars'[k]
             link == LinkInfo_get(k)
         IN /\ stale = last'.stale /\ stale # 0 /\ syms[stale].live
            /\ syms'[stale].name = NoName
            /\ fresh = Len(syms) + 1 /\ Len(syms') = Len(syms) + 1
            /\ syms'[fresh].name = link.Name
            /\ syms'[fresh].linkage = link.Linkage
            /\ syms'[fresh].visibility = link.Visibility
            /\ syms'[fresh].valueType = last'.def
            /\ syms'[fresh].kind = "GlobalVariable"
            /\ \A h \in handles :
                 IF h.sym = stale
                 THEN \E g \in handles' :
                        g.sym = fresh /\ g.key = h.key /\ g.def = h.def
                 ELSE h \in handles'
            /\ \A g \in handles' : g.sym # stale
            /\ ~syms'[stale].live
            /\ syms'[fresh].live
            /\ \A i \in 1..Len(syms) :
                 i # stale => syms'[i] = syms[i]
     ]_vars

\* An upgrade has replaced a forward declaration that was referred to.
C3_Witness ==
  /\ last.path = "upgrade"
  /\ last.key = vwtKey
  /\ ~assertViolated
  /\ \E h \in handles : h.key = vwtKey /\ ~h.def

\* The state an outcome leaves for the next request.
StateOf(o) == [syms |-> o.syms, globals |-> o.globals, handles |-> o.handles,
               hadError |-> o.hadError, assertViolated |-> o.assertViolated]
\* A use request and a definition request of the value-witness table at
\* type t, from state c.
UseOf(c) ==
  getAddrOfLLVMVariable(c, ndebug, vwtKey, NullTy, WitnessTableTy,
                        WitnessTablePtrTy)
DefinitionOf(c, t) ==
  getAddrOfLLVMVariable(c, ndebug, vwtKey, t, WitnessTableTy,
                        WitnessTablePtrTy)
\* The artifact graph of key k in an outcome: the symbol the key resolves
\* to (name, type, whether it is in the module), the number of live symbols
\* of the key, and the references to the symbol with the type each sees.
ArtifactGraph(o, k) ==
  LET sym == o.globals[k] IN
  [name |-> o.syms[sym].name,
   type |-> o.syms[sym].valueType,
   live |-> o.syms[sym].live,
   symbols |-> Cardinality({i \in Live(o.syms) : o.syms[i].origin = k} \cup {sym}),
   references |-> {[ty |-> h.ty, def |-> h.def] : h \in {g \in o.handles : g.sym = sym}},
   dangling |-> {h \in o.handles : h.key = k /\ h.sym # sym}]

\* C4: for an entity not requested yet, a use request followed by a
\* definition request and the same two requests in the other order end in
\* the same artifact graph: one symbol, in the module, bearing the mangled
\* name, of the definition type, with the same references, every
\* reference of a use seeing it at the pointer-to-default type.  And once
\* an entity has been both used and defined, in whichever order, its
\* symbol bears the mangled name, has the type it was defined at, and
\* every use refers to it at the pointer-to-default type.
C4_OrderIndependent ==
  /\ (GlobalVars[vwtKey] = 0 /\ ~aborted) =>
       \A t \in DefinitionTypes :
         LET useFirst == DefinitionOf(StateOf(UseOf(CacheState)), t)
             defFirst == UseOf(StateOf(DefinitionOf(CacheState, t)))
             g == ArtifactGraph(useFirst, vwtKey)
         IN /\ g = ArtifactGraph(defFirst, vwtKey)
            /\ g.name = mangle(vwtKey) /\ g.type = t /\ g.live
            /\ g.symbols = 1 /\ g.dangling = {}
            /\ \A r \in g.references : ~r.def => r.ty = WitnessTablePtrTy
            /\ \E r \in g.references : ~r.def
  /\ ( /\ ~assertViolated
       /\ \E h \in handles : h.key = vwtKey /\ h.def
       /\ \E h \in handles : h.key = vwtKey /\ ~h.def ) =>
       LET sym == GlobalVars[vwtKey] IN
       /\ sym \in Live(syms)
       /\ syms[sym].name = mangle(vwtKey)
       /\ syms[sym].valueType =
            IF \E h \in handles : h.key = vwtKey /\ h.ty = getPointerTo(TableDefTy)
            THEN TableDefTy ELSE WitnessTableTy
       /\ \A h \in handles :
            (h.key = vwtKey /\ ~h.def) =>
              h.sym = sym /\ h.ty = WitnessTablePtrTy

\* The table was defined at a type of its own and used, the use coming
\* last.
C4_Witness ==
  /\ ~assertViolated
  /\ last.path = "hit" /\ last.key = vwtKey /\ last.def = NullTy
  /\ syms[GlobalVars[vwtKey]].valueType = TableDefTy
  /\ \E h \in handles : h.key = vwtKey /\ h.def

UseHitStep(k) ==
  /\ last'.path = "hit"
  /\ last'.key = k
  /\ last'.def = NullTy
  /\ last'.op # "none"
  /\ (last' # last \/ handles' # handles)

\* C6: a request without a definition requirement for a key that is
\* cached returns the cached symbol seen at the pointer-to-default type and
\* changes neither the module, nor the caches, nor the flags.
C6_UseOfCachedKey ==
  [][\A k \in Keys :
       UseHitStep(k) =>
         /\ Cached(k) # 0
         /\ last'.result = Handle(k, Cached(k), PointerToDefault(k), FALSE)
         /\ UNCHANGED <<syms, GlobalFuncs, GlobalVars, hadError, assertViolated>>
         /\ handles' = handles \cup {last'.result}
     ]_vars

\* A use found a table that had been defined at a type of its own.
C6_Witness ==
  /\ last.path = "hit" /\ last.key = vwtKey /\ last.def = NullTy
  /\ getType(syms[last.result.sym]) # last.result.ty

\* C7 as stated: on a collision the newer symbol is the one renamed with a
\* disambiguating suffix.
C7_Original ==
  last.collided =>
    /\ hadError
    /\ syms[last.result.sym].name.base = last.key
    /\ syms[last.result.sym].name.suf >= 1

\* C7, amended: when createFunction or createVariable finds a symbol
\* bearing the mangled name with an incompatible type, it reports an error,
\* renames the existing (older) symbol with a disambiguating suffix, makes
\* the new symbol under the mangled name with the requested type, linkage
\* and visibility, and returns it; it does not abort.
C7_CollisionRecovery ==
  last.collided =>
    LET new == last.result.sym
        link == LinkInfo_get(last.key)
    IN /\ hadError
       /\ last.path # "abort" /\ (~ndebug => ~assertViolated)
       /\ new = Cached(last.key)
       /\ syms[new].live
       /\ syms[new].name = link.Name
       /\ syms[new].linkage = link.Linkage
       /\ getType(syms[new]) = last.result.ty
       /\ \E old \in Live(syms) :
            /\ old < new
            /\ syms[old].name.base = last.key
            /\ syms[old].name.suf >= 1
            /\ syms[old].kind = syms[new].kind
            /\ syms[old].valueType # syms[new].valueType

\* A collision was reported while the name followed by ".unique" was taken
\* too.
C7_Witness ==
  /\ last.collided
  /\ \E old \in Live(syms) : syms[old].name = SymName(last.key, 2)

----------------------------------------------------------------------------
(* Properties of the linkage policy, checked under LinkSpec                 *)

Internal == <<"InternalLinkage", "DefaultVisibility">>
LinkOnceHidden == <<"LinkOnceODRLinkage", "HiddenVisibility">>
External == <<"ExternalLinkage", "DefaultVisibility">>
LinkageOf(i) == <<i.Linkage, i.Visibility>>

\* C8: LinkInfo::get decides by precedence: a local entity is internal,
\* whatever else it is; otherwise a value witness, otherwise a thunk,
\* otherwise a deserialized entity is link-once-deduplicated and hidden;
\* everything else is external.  Hidden visibility goes with
\* link-once-deduplicated linkage only, and the name is the mangled name.
C8_LinkageDecisionTable ==
  info # NoInfo =>
    LET e == entity
        local == isLocalLinkage(e)
    IN /\ info.Name = mangle(e)
       /\ local => LinkageOf(info) = Internal
       /\ (~local /\ isValueWitness(e)) => LinkageOf(info) = LinkOnceHidden
       /\ (~local /\ ~isValueWitness(e) /\ isThunk(e)) =>
            LinkageOf(info) = LinkOnceHidden
       /\ (~local /\ ~isValueWitness(e) /\ ~isThunk(e) /\ isDeserialized(e)) =>
            LinkageOf(info) = LinkOnceHidden
       /\ (~local /\ ~isValueWitness(e) /\ ~isThunk(e) /\ ~isDeserialized(e)) =>
            LinkageOf(info) = External
       /\ info.Visibility = "HiddenVisibility" =>
            info.Linkage = "LinkOnceODRLinkage"
       /\ LinkageOf(info) \in {Internal, LinkOnceHidden, External}

\* The policy was applied to a declaration that is both local and a thunk.
C8_Witness ==
  /\ info # NoInfo
  /\ entity.kind \in DeclKeyedKinds
  /\ isLocalLinkage(entity) /\ isThunk(entity)
  /\ info.Linkage = "InternalLinkage"

\* C9 as stated: no witness-table generator and no witness-table template
\* is local, and none receives internal linkage.
C9_Original ==
  (info # NoInfo /\ entity.kind \in GeneratorKinds \cup TemplateKinds) =>
    ~isLocalLinkage(entity) /\ info.Linkage # "InternalLinkage"

\* C9, amended: the witness-table generators (direct witness tables, lazy
\* accessors, dependent generators) are never local and never receive
\* internal linkage; the witness-table templates (lazy and dependent) are
\* always local and always receive internal linkage.
C9_GeneratorsAndTemplates ==
  info # NoInfo =>
    /\ entity.kind \in GeneratorKinds =>
         ~isLocalLinkage(entity) /\ LinkageOf(info) = External
    /\ entity.kind \in TemplateKinds =>
         isLocalLinkage(entity) /\ LinkageOf(info) = Internal

\* The policy was applied to a template of a type that is not local.
C9_Witness ==
  /\ info # NoInfo
  /\ entity.kind \in TemplateKinds
  /\ ~isLocalLinkageType(entity.type)

\* C10 as stated: no anonymous function is local, and none receives
\* internal linkage.
C10_Original ==
  (info # NoInfo /\ entity.kind = "AnonymousFunction") =>
    ~isLocalLinkage(entity) /\ info.Linkage # "InternalLinkage"

\* C10, amended: every anonymous function is local: isLocalLinkage answers
\* true for it and LinkInfo::get gives it internal linkage and default
\* visibility, wherever it is declared.
C10_AnonymousFunctionsLocal ==
  (info # NoInfo /\ entity.kind = "AnonymousFunction") =>
    isLocalLinkage(entity) /\ LinkageOf(info) = Internal

\* The policy was applied to an anonymous function outside every local
\* context.
C10_Witness ==
  /\ info # NoInfo
  /\ entity.kind = "AnonymousFunction"
  /\ ~isLocalLinkageDecl(entity.decl)

\* C11 as stated: every bridge-to-block converter is local and receives
\* internal linkage.
C11_Original ==
  (info # NoInfo /\ entity.kind = "BridgeToBlockConverter") =>
    isLocalLinkage(entity) /\ info.Linkage = "InternalLinkage"

\* The declaration a type names comes from a Clang module.
FromForeignModule(type) ==
  type.tk \in {"Nominal", "BoundGeneric"} /\ type.decl.unit = "ClangModuleUnit"

\* C11, amended: no bridge-to-block converter is local, whatever its type
\* refers to, and none receives internal linkage: the shim of a type whose
\* nominal declaration comes from a Clang module is link-once-deduplicated
\* and hidden, every other shim is external.
C11_BridgingShimsNonLocal ==
  (info # NoInfo /\ entity.kind = "BridgeToBlockConverter") =>
    /\ ~isLocalLinkage(entity)
    /\ LinkageOf(info) =
         IF FromForeignModule(entity.type) THEN LinkOnceHidden ELSE External

\* The policy was applied to the shim of a type declared in a local context
\* of a source file, and made it external.
C11_Witness ==
  /\ info # NoInfo
  /\ entity.kind = "BridgeToBlockConverter"
  /\ entity.type.tk = "Nominal"
  /\ entity.type.decl.ctx = <<"AbstractFunctionDecl">>
  /\ entity.type.decl.unit = "SourceFile"
  /\ LinkageOf(info) = External

\* The declarations a type's structure refers to: the declaration of every
\* nominal reference in it and, for a polymorphic function type, those of
\* the protocol and superclass bounds of its generic parameters.
RECURSIVE DeclsReferenced(_)
DeclsReferenced(type) ==
  (IF type.tk \in {"Nominal", "BoundGeneric"} THEN {type.decl} ELSE {})
    \cup UNION {DeclsReferenced(type.args[i]) : i \in 1..Len(type.args)}
    \cup UNION {{type.params[i].protos[j] : j \in 1..Len(type.params[i].protos)}
                 : i \in 1..Len(type.params)}
    \cup UNION {UNION {DeclsReferenced(type.params[i].super[j]) :
                         j \in 1..Len(type.params[i].super)}
                 : i \in 1..Len(type.params)}

\* A declaration is locally scoped: one of the contexts between it and the
\* module boundary is a local one.
LocallyScoped(d) ==
  \E i \in 1..Len(d.ctx) :
    d.ctx[i] \in {"AbstractClosureExpr", "TopLevelCodeDecl",
                  "AbstractFunctionDecl", "Initializer"}

\* C12: a type-keyed entity (value witness, value-witness table, type
\* metadata, type mangling) receives internal linkage exactly when the
\* structure of its type refers to a locally scoped declaration, through a
\* nominal reference at any depth or through a protocol or superclass bound
\* of a generic parameter; a type that refers to no local declaration never
\* receives internal linkage.
C12_LocalLinkageClosure ==
  (info # NoInfo /\ entity.kind \in TypeKeyedKinds) =>
    (info.Linkage = "InternalLinkage"
       <=> \E d \in DeclsReferenced(entity.type) : LocallyScoped(d))

\* The policy was applied to the metadata of a bound generic type that is
\* not local itself and whose argument is declared in a type nested in a
\* function, and made it internal.
C12_Witness ==
  /\ info # NoInfo
  /\ entity.kind = "TypeMetadata"
  /\ entity.type.tk = "BoundGeneric"
  /\ entity.type.decl.ctx = <<>>
  /\ entity.type.args[1].tk = "Nominal"
  /\ entity.type.args[1].decl.ctx = <<"NominalTypeDecl", "AbstractFunctionDecl">>
  /\ info.Linkage = "InternalLinkage"

\* The thunk rule, by the payload of the entity.
ThunkRule(e) ==
  \/ /\ e.kind \in DeclKeyedKinds
     /\ e.decl.unit = "ClangModuleUnit"
     /\ \/ e.kind \in {"NominalTypeDescriptor", "ProtocolDescriptor"}
        \/ e.decl.dk \in {"Constructor", "Subscript"}
        \/ e.decl.dk = "Var" /\ e.decl.computed
  \/ /\ e.kind \in TypeKeyedKinds \cup {"BridgeToBlockConverter"}
     /\ FromForeignModule(e.type)

\* C13: a declaration-keyed entity is a thunk exactly when its declaration
\* comes from a Clang module and the entity is a nominal-type or protocol
\* descriptor or the declaration is a constructor, a subscript or a computed
\* variable; a type-keyed entity is a thunk exactly when its nominal
\* declaration comes from a Clang module; a protocol-conformance entity is
\* never a thunk.  A thunk that is not local is link-once-deduplicated and
\* hidden; a function or stored variable of a Clang module that is not
\* local, keyed by a kind other than the two descriptors, is external.
C13_ThunkRule ==
  (info # NoInfo /\ entity.kind \notin SILKinds \cup {"AnonymousFunction"}) =>
    /\ isThunk(entity) <=> ThunkRule(entity)
    /\ entity.kind \in GeneratorKinds \cup TemplateKinds => ~isThunk(entity)
    /\ (ThunkRule(entity) /\ info.Linkage # "InternalLinkage") =>
         LinkageOf(info) = LinkOnceHidden
    /\ ( /\ entity.kind \in DeclKeyedKinds
         /\ entity.kind \notin {"NominalTypeDescriptor", "ProtocolDescriptor"}
         /\ entity.decl.unit = "ClangModuleUnit"
         /\ \/ entity.decl.dk = "Func"
            \/ entity.decl.dk = "Var" /\ ~entity.decl.computed
         /\ ~LocallyScoped(entity.decl) ) =>
         LinkageOf(info) = External

\* The policy was applied to the getter of a stored variable of a Clang
\* module, declared in a type, and made it external.
C13_Witness ==
  /\ info # NoInfo
  /\ entity.kind = "Getter"
  /\ entity.decl.dk = "Var" /\ ~entity.decl.computed
  /\ entity.decl.unit = "ClangModuleUnit"
  /\ entity.decl.ctx = <<"NominalTypeDecl">>
  /\ LinkageOf(info) = External

----------------------------------------------------------------------------
(* Properties of the accessor types, checked under AccessorSpec             *)

IsSubscript == value.decl.dk = "Subscript"
\* the declaration's own context is a nominal type or an extension
IsMember ==
  /\ Len(value.decl.ctx) > 0
  /\ value.decl.ctx[1] \in {"NominalTypeDecl", "ExtensionDecl"}
Derived == {f \in {getterType, setterType} : f # NoFormal}

\* C14: for the getter and the setter of any declaration, the uncurry level
\* is 1 for a subscript (0 otherwise) plus 1 for a declaration whose context
\* is a nominal type or an extension (0 otherwise); the calling convention
\* is Method for those contexts and Freestanding for every other one.
C14_UncurryLevelAndConvention ==
  \A f \in Derived :
    /\ f.uncurryLevel = (IF IsSubscript THEN 1 ELSE 0) + (IF IsMember THEN 1 ELSE 0)
    /\ f.cc = IF IsMember THEN "Method" ELSE "Freestanding"

\* The getter and the setter of a subscript of an extension were derived,
\* at uncurry level 2.
C14_Witness ==
  /\ IsSubscript /\ IsMember
  /\ value.decl.ctx[1] = "ExtensionDecl"
  /\ getterType.uncurryLevel = 2 /\ setterType.uncurryLevel = 2
  /\ getterType.cc = "Method"

\* C15: the receiver of a member is the outermost parameter of the formal
\* type; it is an lvalue of the owner type when the owner is not a class
\* (value semantics) and the owner type itself when the owner is a class
\* (reference semantics).
C15_ReceiverPassing ==
  \A f \in Derived :
    IsMember =>
      f.formalType.args[1] =
        IF value.ownerType.decl.dk = "Class"
        THEN value.ownerType
        ELSE TypeNode("LValue", NoDecl, <<value.ownerType>>, <<>>)

\* The getter of a member of a struct and, in another state, of a class was
\* derived: here the struct, taken by reference, in a generic context.
C15_Witness ==
  /\ getterType # NoFormal
  /\ IsMember
  /\ value.ownerType.decl.dk = "Struct"
  /\ Len(value.ownerParams) > 0
  /\ getterType.formalType.tk = "PolyFn"
  /\ getterType.formalType.args[1].tk = "LValue"

\* The object type T, the formal type without the receiver, and a function
\* type as a plain node.
ObjectT == IF IsSubscript THEN value.elementType ELSE value.type
BelowReceiver(f) == IF IsMember THEN f.formalType.args[2] ELSE f.formalType
Arrow(in, out) == TypeNode("Fn", NoDecl, <<in, out>>, <<>>)
Unit == TypeNode("Tuple", NoDecl, <<>>, <<>>)

\* C16: below the receiver, a getter has type () -> T and a setter T -> (),
\* each under the index parameter for a subscript, T being the element type
\* of a subscript and the declared type otherwise; the receiver of a member
\* is the outermost parameter, the index the next one; the getter and the
\* setter of one declaration have the same uncurry level and convention.
C16_GetterSetterShape ==
  /\ getterType # NoFormal =>
       BelowReceiver(getterType) =
         IF IsSubscript THEN Arrow(value.indices, Arrow(Unit, ObjectT))
         ELSE Arrow(Unit, ObjectT)
  /\ setterType # NoFormal =>
       BelowReceiver(setterType) =
         IF IsSubscript THEN Arrow(value.indices, Arrow(ObjectT, Unit))
         ELSE Arrow(ObjectT, Unit)
  /\ \A f \in Derived :
       IsMember =>
         /\ f.formalType.tk \in {"Fn", "PolyFn"}
         /\ f.formalType.args[1] \in
              {value.ownerType,
               TypeNode("LValue", NoDecl, <<value.ownerType>>, <<>>)}
  /\ (getterType # NoFormal /\ setterType # NoFormal) =>
       /\ getterType.uncurryLevel = setterType.uncurryLevel
       /\ getterType.cc = setterType.cc

\* Both accessors of a subscript that is a member of a type were derived.
C16_Witness ==
  /\ IsSubscript /\ IsMember
  /\ value.elementType # Builtin
  /\ getterType # NoFormal /\ setterType # NoFormal
  /\ getterType.formalType.args[2].args[1] = value.indices

----------------------------------------------------------------------------
(* Properties of the dispatcher, checked under DispatchSpec                 *)

EmitKinds == {"Extension", "Protocol", "Enum", "Struct", "Class"}
NoOpKinds ==
  {"PatternBinding", "TypeAlias", "GenericTypeParam", "AssociatedType", "Var",
   "TopLevelCode", "InfixOperator", "PrefixOperator", "PostfixOperator",
   "Import"}
FatalKinds == {"Subscript", "EnumCase", "EnumElement", "Constructor", "Destructor"}
PendingUnchanged ==
  UNCHANGED <<ObjCCategories, ObjCCategoryDecls, syms, GlobalFuncs, GlobalVars,
              handles>>

\* What a step of emitGlobalDecl does for the declaration it is called
\* with; fatalAlways says that reaching a fatal kind ends the process in
\* every build.
GlobalDispatchStep(fatalAlways) ==
  dispatched' # dispatched =>
    LET D == dispatched'.decl IN
    /\ D.dk \in EmitKinds \cup {"Func"} \cup NoOpKinds \cup FatalKinds
    /\ D.dk \in EmitKinds \ {"Extension"} =>
         /\ emitted' = Append(emitted, [fn |-> "emit" \o D.dk \o "Decl", dk |-> D.dk])
         /\ ~unreachableHit' /\ ~dispatched'.gone
    /\ D.dk = "Extension" => dispatched'.case = "emitExtension"
    /\ D.dk = "Func" =>
         /\ emitted' = Append(emitted, [fn |-> "emitLocalDecls", dk |-> D.dk])
         /\ PendingUnchanged
         /\ ~unreachableHit' /\ ~dispatched'.gone
    /\ D.dk \in NoOpKinds =>
         /\ emitted' = IF D.dk = "Import" /\ DebugInfo
                       THEN Append(emitted, [fn |-> "emitImport", dk |-> D.dk])
                       ELSE emitted
         /\ PendingUnchanged
         /\ ~unreachableHit' /\ ~dispatched'.gone
    /\ D.dk \in FatalKinds =>
         /\ unreachableHit'
         /\ (fatalAlways \/ ~ndebug) => dispatched'.gone
         /\ emitted' = emitted
         /\ PendingUnchanged

OutcomeOf(call) ==
  CASE call = "unreachable" -> "fatal"
    [] call \in {"return", "continue"} -> "no-op"
    [] call = "emitLocalDecls" -> "defer"
    [] OTHER -> "emit"

\* The members of the extension dispatched that the loop got to.
MembersHandled == 1..Len(dispatched.calls)
IsExtensionRun == dispatched.case = "emitExtension"

\* C18 as stated: except for a nested extension, an operator and an
\* import, a member of an extension has the outcome emitGlobalDecl has for
\* its kind.
C18_Original ==
  IsExtensionRun =>
    \A i \in MembersHandled :
      LET member == dispatched.decl.members[i] IN
      member.dk \notin {"Extension", "Import", "InfixOperator",
                        "PrefixOperator", "PostfixOperator"} =>
        OutcomeOf(dispatched.calls[i]) =
          OutcomeOf(emitGlobalDecl_case(member, DebugInfo))

\* The outcome of a member of an extension, by kind.
ExtensionOutcome(member) ==
  CASE member.dk \in {"Enum", "Struct", "Class"} -> "emit"
    [] member.dk \in {"Func", "Constructor"} -> "defer"
    [] member.dk \in {"PatternBinding", "Subscript", "TypeAlias",
                      "GenericTypeParam", "AssociatedType"} -> "no-op"
    [] member.dk = "Var" /\ member.computed -> "no-op"
    [] OTHER -> "fatal"

\* The kinds on which the two switches agree.
AgreedKinds ==
  {"PatternBinding", "TypeAlias", "GenericTypeParam", "AssociatedType",
   "Enum", "Struct", "Class", "Func", "EnumCase", "EnumElement", "Destructor"}

\* C18, amended: emitExtension dispatches each member, in order, through a
\* switch of its own: enum, struct and class members are emitted, func and
\* constructor members deferred to the lowering of their bodies, pattern
\* bindings, subscripts, type aliases, generic type parameters, associated
\* types and computed variables skipped, and every other member (import,
\* enum case, enum element, top-level code, protocol, nested extension,
\* destructor, operator, stored variable) reaches llvm_unreachable.  It
\* agrees with emitGlobalDecl on pattern bindings, type aliases, generic
\* type parameters, associated types, enums, structs, classes, funcs, enum
\* cases, enum elements, destructors and computed variables, and differs on
\* subscripts, constructors, stored variables, protocols and top-level
\* code.
C18_ExtensionTable ==
  IsExtensionRun =>
    /\ Len(dispatched.calls) <= Len(dispatched.decl.members)
    /\ (~dispatched.gone => Len(dispatched.calls) = Len(dispatched.decl.members))
    /\ \A i \in MembersHandled :
         LET member == dispatched.decl.members[i]
             same == OutcomeOf(dispatched.calls[i]) =
                       OutcomeOf(emitGlobalDecl_case(member, DebugInfo))
         IN /\ OutcomeOf(dispatched.calls[i]) = ExtensionOutcome(member)
            /\ same <=> (member.dk \in AgreedKinds
                           \/ (member.dk = "Var" /\ member.computed))

\* An extension with a constructor and then a protocol was dispatched: the
\* constructor was deferred and the protocol ended the process.
C18_Witness ==
  /\ IsExtensionRun
  /\ Len(dispatched.decl.members) = 2
  /\ dispatched.decl.members[1].dk = "Constructor"
  /\ dispatched.decl.members[2].dk = "Protocol"
  /\ dispatched.calls = <<"emitLocalDecls", "unreachable">>
  /\ dispatched.gone
  /\ emitted = <<[fn |-> "emitLocalDecls", dk |-> "Constructor"]>>

----------------------------------------------------------------------------
(* Properties of metadata addressing, checked under MetadataSpec            *)

\* A request got as far as choosing a layout.
LayoutChosen == metadata.requested /\ metadata.key # NoEntity
\* A request returned an address.
AddressReturned == LayoutChosen /\ last.path # "abort"

IsHostRuntimeClass ==
  /\ metadata.type.tk = "Nominal"
  /\ metadata.type.decl.dk = "Class"
  /\ metadata.type.decl.unit = "ClangModuleUnit"
IsClassOrBoundGenericClass ==
  /\ metadata.type.tk \in {"Nominal", "BoundGeneric"}
  /\ metadata.type.decl.dk = "Class"

\* The layout class selected and its word adjustment.
SelectedLayout ==
  CASE metadata.isPattern -> <<"TypeMetadataPatternStructTy", 0>>
    [] ~metadata.isPattern /\ IsHostRuntimeClass -> <<"TypeMetadataStructTy", 0>>
    [] ~metadata.isPattern /\ ~IsHostRuntimeClass /\ IsClassOrBoundGenericClass ->
         <<"FullHeapMetadataStructTy", 2>>
    [] OTHER -> <<"FullTypeMetadataStructTy", 1>>
ExpectedAdjustment == IF metadata.isIndirect THEN 0 ELSE SelectedLayout[2]

\* C19: getAddrOfTypeMetadata selects: for a pattern the pattern type,
\* adjustment 0; for a class without known Swift metadata the generic
\* metadata type, adjustment 0; for another class or a bound generic class
\* the heap metadata type, adjustment 2; for every other type the full
\* metadata type, adjustment 1; an indirect request stores a pointer to the
\* selected type, with adjustment 0.  A symbol created for a use has the
\* storage type so selected.
C19_LayoutSelection ==
  LayoutChosen =>
    /\ metadata.layout.defaultVarTy =
         [ptr |-> IF metadata.isIndirect THEN 1 ELSE 0, base |-> SelectedLayout[1]]
    /\ metadata.layout.defaultVarPtrTy =
         [ptr |-> IF metadata.isIndirect THEN 2 ELSE 1, base |-> SelectedLayout[1]]
    /\ metadata.layout.adjustmentIndex = ExpectedAdjustment
    /\ (last.path = "create" /\ metadata.storageType = NullTy) =>
         syms[last.result.sym].valueType = metadata.layout.defaultVarTy

\* The indirect metadata of a class with Swift metadata was requested for
\* use and a pointer variable created for it.
C19_Witness ==
  /\ LayoutChosen
  /\ metadata.isIndirect /\ ~metadata.isPattern
  /\ metadata.type.tk = "Nominal" /\ metadata.type.decl.dk = "Class"
  /\ metadata.type.decl.unit = "SourceFile"
  /\ last.path = "create"
  /\ syms[last.result.sym].valueType = [ptr |-> 1, base |-> "FullHeapMetadataStructTy"]
  /\ metadata.layout.adjustmentIndex = 0

\* C20: with no storage type the address returned is the storage address,
\* seen at the pointer-to-default type, plus the word adjustment of the
\* layout class, as an in-bounds element access; with a storage type it is
\* the symbol itself, unadjusted.  Pattern, indirect and host-runtime-class
\* metadata are never adjusted.
C20_AddressPoint ==
  AddressReturned =>
    /\ metadata.addr.base = last.result
    /\ metadata.addr.base.sym = GlobalVars[metadata.key]
    /\ metadata.storageType = NullTy =>
         /\ metadata.addr.index = ExpectedAdjustment
         /\ metadata.addr.base.ty = metadata.layout.defaultVarPtrTy
    /\ metadata.storageType # NullTy =>
         /\ metadata.addr.index = 0
         /\ metadata.addr.base.ty = getType(syms[metadata.addr.base.sym])
    /\ (metadata.isPattern \/ metadata.isIndirect \/ IsHostRuntimeClass) =>
         metadata.addr.index = 0

\* The direct metadata of a class was defined with a storage type of the
\* caller's, which returned the symbol itself although the layout class
\* has adjustment 2.
C20_Witness ==
  /\ AddressReturned
  /\ metadata.storageType = MetadataDefTy
  /\ metadata.layout.adjustmentIndex = 2
  /\ metadata.addr.index = 0
  /\ last.path = "upgrade"

\* The three conditions of category necessity, for the extension
\* dispatched by the step.
ClassIsRuntimeVisible(ext) == ext.origClass = "ObjC"
ConformsToRuntimeVisibleProtocol(ext) ==
  \E i \in 1..Len(ext.protocols) :
    \/ ext.protocols[i].isObjC
    \/ \E j \in 1..Len(ext.protocols[i].inherited) :
         ext.protocols[i].inherited[j].isObjC
MemberRequiresDescriptor(ext) ==
  \E i \in 1..Len(ext.members) :
    /\ ext.members[i].dk \in {"Func", "Constructor", "Var", "Subscript"}
    /\ ext.members[i].objc
ExtensionOfClassCompleted ==
  /\ dispatched' # dispatched
  /\ dispatched'.case = "emitExtension"
  /\ dispatched'.decl.origClass # "none"
  /\ ~dispatched'.gone

\* C21: emitExtension, run to its end on an extension of a class, appends
\* exactly one entry to ObjCCategories and to ObjCCategoryDecls when the
\* class is an Objective-C class, or a conformance of the extension is to
\* an Objective-C protocol, directly or through an inherited conformance,
\* or a func, constructor, var or subscript member requires a descriptor;
\* it appends nothing when none of the three holds.
C21_CategoryNecessity ==
  [][ExtensionOfClassCompleted =>
       LET ext == dispatched'.decl
           needed == \/ ClassIsRuntimeVisible(ext)
                     \/ ConformsToRuntimeVisibleProtocol(ext)
                     \/ MemberRequiresDescriptor(ext)
       IN /\ needed =>
               /\ Len(ObjCCategories') = Len(ObjCCategories) + 1
               /\ ObjCCategoryDecls' = Append(ObjCCategoryDecls, ext)
          /\ ~needed =>
               UNCHANGED <<ObjCCategories, ObjCCategoryDecls>>
     ]_vars

\* An extension of a Swift class with no member requiring a descriptor got
\* a category for a protocol that only inherits from an Objective-C one.
C21_Witness ==
  /\ dispatched.case = "emitExtension" /\ ~dispatched.gone
  /\ dispatched.decl.origClass = "Swift"
  /\ ~MemberRequiresDescriptor(dispatched.decl)
  /\ \A i \in 1..Len(dispatched.decl.protocols) :
       ~dispatched.decl.protocols[i].isObjC
  /\ Len(ObjCCategoryDecls) > 0
  /\ ObjCCategoryDecls[Len(ObjCCategoryDecls)] = dispatched.decl

\* C34: emitExtension on an extension of a type that is no class leaves
\* ObjCCategories and ObjCCategoryDecls as they were, whatever the
\* conformances and the members of the extension are.
C34_NonClassNeverCategory ==
  [][(/\ dispatched' # dispatched
      /\ dispatched'.case = "emitExtension"
      /\ dispatched'.decl.origClass = "none") =>
       UNCHANGED <<ObjCCategories, ObjCCategoryDecls>>
    ]_vars

\* emitExtension ran to its end on an extension of a type that is no class
\* which conforms to an Objective-C protocol and has a member requiring a
\* descriptor.
C34_Witness ==
  /\ dispatched.case = "emitExtension"
  /\ dispatched.decl.origClass = "none"
  /\ ~dispatched.gone
  /\ ConformsToRuntimeVisibleProtocol(dispatched.decl)
  /\ MemberRequiresDescriptor(dispatched.decl)
  /\ Len(dispatched.calls) = Len(dispatched.decl.members)

----------------------------------------------------------------------------
(* Stability of artifacts, checked under Spec                               *)

\* The name, linkage, visibility and type of a symbol.
ArtifactTuple(sym) ==
  <<sym.name, sym.linkage, sym.visibility, sym.valueType>>

\* C28 as stated: no request renames, re-types or removes the symbol a
\* handle returned before denotes.
C28_Original ==
  [][\A h \in handles :
       /\ syms'[h.sym].live
       /\ ArtifactTuple(syms'[h.sym]) = ArtifactTuple(syms[h.sym])
    ]_vars

\* C28: a request leaves the symbol a handle denotes as it is, and the
\* handle with it, unless the request is the definition upgrade of the
\* handle's key: then the symbol loses its name and is removed, and the
\* handle denotes, at the type it had, a new live symbol that has the
\* name of the old one, the linkage and visibility LinkInfo::get gives the
\* key, and the definition type.
C28_StableUntilUpgraded ==
  [][\A h \in handles :
       LET old == syms[h.sym]
           now == syms'[h.sym]
       IN IF last'.path = "upgrade" /\ last'.stale = h.sym
          THEN /\ last'.key = h.key
               /\ ~now.live
               /\ now.name = NoName
               /\ \E g \in handles' :
                    /\ g.key = h.key /\ g.def = h.def /\ g.ty = h.ty
                    /\ g.sym # h.sym
                    /\ syms'[g.sym].live
                    /\ syms'[g.sym].name = old.name
                    /\ syms'[g.sym].name = LinkInfo_get(h.key).Name
                    /\ syms'[g.sym].linkage = LinkInfo_get(h.key).Linkage
                    /\ syms'[g.sym].visibility = LinkInfo_get(h.key).Visibility
                    /\ syms'[g.sym].valueType = last'.def
          ELSE /\ now = old
               /\ h \in handles'
    ]_vars

\* A handle returned for a use denotes, after the upgrade, a symbol that
\* is not the one it was returned for.
C28_Witness ==
  /\ last.path = "upgrade"
  /\ \E h \in handles :
       /\ h.key = last.key /\ ~h.def
       /\ h.sym # last.stale
       /\ ~syms[last.stale].live
       /\ h.ty # getPointerTo(syms[h.sym].valueType)

----------------------------------------------------------------------------
(* Evaluation of the linkage policy, checked under Spec                     *)

\* The request of the step went through LinkInfo::get: it took the path
\* that creates a symbol, for a key not cached or for one being upgraded.
LinkInfoEvaluated == last'.path \in {"create", "upgrade"}

\* C31 as stated: LinkInfo::get is evaluated for a key only when the key
\* is not cached.
C31_Original ==
  [][LinkInfoEvaluated => Cached(last'.key) = 0]_vars

\* C31: a request evaluates LinkInfo::get when its key is not cached, and
\* again when it is the definition upgrade of a cached variable key; a
\* request that finds its key cached and is no upgrade does not evaluate
\* it and creates nothing. A function key is evaluated once.
C31_PolicyPerCreation ==
  [][LET k == last'.key IN
     /\ (Cached(k) = 0 /\ last'.path # "abort") => last'.path = "create"
     /\ last'.path = "create" => Cached(k) = 0
     /\ last'.path = "upgrade" =>
          /\ Cached(k) # 0
          /\ k \in LLVMVarKeys
          /\ last'.def # NullTy
          /\ last'.stale = Cached(k)
     /\ last'.path = "hit" =>
          /\ Cached(k) # 0
          /\ UNCHANGED <<syms, GlobalFuncs, GlobalVars>>
     /\ k \in FuncKeys => (LinkInfoEvaluated <=> Cached(k) = 0)
    ]_vars

\* The policy was evaluated a second time for a key, by an upgrade.
C31_Witness ==
  /\ last.path = "upgrade"
  /\ Cardinality(ConstructedFor(last.key)) = 2

\* C32: the definition upgrade reports no collision: the step sets no
\* error, the stale symbol has lost its name, no live symbol other than
\* the fresh one has the key's mangled name or a suffixed form of it that
\* the step made, and the fresh symbol has the mangled name itself.
C32_UpgradeWithoutCollision ==
  [][\A k \in LLVMVarKeys :
       UpgradeStep(k) =>
         LET fresh == GlobalVars'[k]
             stale == GlobalVars[k]
         IN /\ ~last'.collided
            /\ hadError' = hadError
            /\ syms'[stale].name = NoName
            /\ syms'[fresh].name = mangle(k)
            /\ syms'[fresh].name.suf = 0
            /\ \A i \in Live(syms') :
                 (i # fresh /\ i <= Len(syms)) => syms'[i].name = syms[i].name
    ]_vars

\* An upgrade happened in a module that holds a foreign symbol and no
\* error has been reported.
C32_Witness ==
  /\ last.path = "upgrade"
  /\ ~hadError
  /\ syms[Cached(last.key)].name = mangle(last.key)
  /\ \E i \in Live(syms) : i # Cached(last.key)

\* The type a request for a key asks the module for.
RequestedType(k, def) ==
  IF k \in FuncKeys THEN FnTy
  ELSE IF k = varKey THEN StorageTy
  ELSE IF def # NullTy THEN def ELSE WitnessTableTy

\* The live symbols of the kind of the key that bear the key's mangled name
\* and have exactly the requested type.
Adoptable(k, def) ==
  {i \in Live(syms) :
     /\ syms[i].name = mangle(k)
     /\ syms[i].kind = (IF k \in FuncKeys THEN "Function" ELSE "GlobalVariable")
     /\ getType(syms[i]) = getPointerTo(RequestedType(k, def))}

\* C33: a cache miss in a module that holds a symbol of the mangled name
\* and of exactly the requested type adopts it: the symbol is returned and
\* cached, the module is left as it was (no symbol made, no name, linkage
\* or visibility changed), and no error is reported.
C33_Adoption ==
  [][\A k \in FuncKeys \cup {varKey} \cup LLVMVarKeys :
       \A i \in Adoptable(k, last'.def) :
         (last'.key = k /\ Cached(k) = 0 /\ last'.path = "create") =>
           /\ last'.result.sym = i
           /\ IF k \in FuncKeys THEN GlobalFuncs'[k] = i ELSE GlobalVars'[k] = i
           /\ syms' = syms
           /\ hadError' = hadError
           /\ ~last'.collided
    ]_vars

\* A symbol the module held before the first request is what a variable
\* key is cached as, and no error has been reported.
C33_Witness ==
  /\ last.path = "create"
  /\ last.key \in {varKey} \cup LLVMVarKeys
  /\ Cached(last.key) # 0
  /\ syms[Cached(last.key)].origin = NoEntity
  /\ syms[Cached(last.key)].name = mangle(last.key)
  /\ ~hadError

----------------------------------------------------------------------------
(* Keys of type metadata, checked under MetadataFormsSpec                    *)

\* Two requests in a row, both answered, for the same type in two forms.
FormsDiffer ==
  /\ metadata.requested /\ metadata'.requested
  /\ metadata.key # NoEntity /\ metadata'.key # NoEntity
  /\ last.path # "abort" /\ last'.path # "abort"
  /\ metadata'.type = metadata.type
  /\ \/ metadata'.isIndirect # metadata.isIndirect
     \/ metadata'.isPattern # metadata.isPattern

\* C30: two requests for the metadata of the same type that differ in
\* isIndirect or in isPattern have different keys and are answered with
\* different symbols, whatever the type, Objective-C classes included.
C30_KeysIncorporateFlags ==
  [][FormsDiffer =>
       /\ metadata'.key # metadata.key
       /\ last'.result.sym # last.result.sym
    ]_vars

----------------------------------------------------------------------------
(* Properties of category synthesis, checked under CategorySpec             *)

\* The instructions of the synthesized category initializer, in order, and
\* its registration calls.
CategoryInitializerBody ==
  LET fs == getFunctionNamed(Functions, "_swift_initObjCCategories")
  IN IF fs = {} THEN <<>> ELSE (CHOOSE f \in fs : TRUE).blocks[1]
CategoryIndex(id) ==
  CHOOSE k \in 1..Len(ObjCCategoryDecls) : ObjCCategoryDecls[k].id = id
MemberRegistered(c) ==
  ObjCCategoryDecls[CategoryIndex(c.ext)].members[c.index]
ReplaceMethodCalls ==
  {n \in 1..Len(CategoryInitializerBody) :
     CategoryInitializerBody[n].callee = "class_replaceMethod"}
AddProtocolCalls ==
  {n \in 1..Len(CategoryInitializerBody) :
     CategoryInitializerBody[n].callee = "class_addProtocol"}

\* C22: every registration call of the category initializer targets the
\* class's metadata record when the member it registers is instance-scoped
\* and the metaclass record when the member is static, whatever the kind
\* of the member: method, constructor, property accessor, subscript
\* accessor.
C22_TargetFollowsScope ==
  \A n \in ReplaceMethodCalls :
    LET c == CategoryInitializerBody[n] IN
    c.target = IF MemberRegistered(c).isStatic THEN "metaclassMetadata"
               ELSE "classMetadata"

\* C23: the replace-method calls of the category initializer follow the
\* order of the extensions and, within an extension, of its members; a
\* member gets one call as a method when it is a func or constructor
\* requiring a descriptor, one getter call when it is a var or subscript
\* requiring a descriptor, one setter call after the getter when, in
\* addition, it is settable, and no other call; a protocol of the
\* extension gets one add-protocol call when it is itself an Objective-C
\* protocol and none otherwise.
RolePosition(role) == IF role = "setter" THEN 2 ELSE 1
Before(c, d) ==
  \/ CategoryIndex(c.ext) < CategoryIndex(d.ext)
  \/ /\ c.ext = d.ext
     /\ \/ c.index < d.index
        \/ c.index = d.index /\ RolePosition(c.role) < RolePosition(d.role)
CallsFor(k, i, role) ==
  Cardinality({n \in ReplaceMethodCalls :
     /\ CategoryInitializerBody[n].ext = ObjCCategoryDecls[k].id
     /\ CategoryInitializerBody[n].index = i
     /\ CategoryInitializerBody[n].role = role})
ExpectedCalls(member, role) ==
  IF ~member.objc THEN 0
  ELSE IF role = "method"
    THEN (IF member.dk \in {"Func", "Constructor"} THEN 1 ELSE 0)
  ELSE IF role = "getter"
    THEN (IF member.dk \in {"Var", "Subscript"} THEN 1 ELSE 0)
  ELSE (IF member.dk \in {"Var", "Subscript"} /\ member.isSettable
        THEN 1 ELSE 0)
C23_CategorySynthesisOrder ==
  pass.op = "emitObjCCategoryInitializer" =>
    /\ \A m, n \in ReplaceMethodCalls :
         m < n => Before(CategoryInitializerBody[m], CategoryInitializerBody[n])
    /\ \A k \in 1..Len(ObjCCategoryDecls) :
         /\ \A i \in 1..Len(ObjCCategoryDecls[k].members) :
              \A role \in {"method", "getter", "setter"} :
                CallsFor(k, i, role) =
                  ExpectedCalls(ObjCCategoryDecls[k].members[i], role)
         /\ \A i \in 1..Len(ObjCCategoryDecls[k].protocols) :
              Cardinality({n \in AddProtocolCalls :
                 /\ CategoryInitializerBody[n].ext = ObjCCategoryDecls[k].id
                 /\ CategoryInitializerBody[n].index = i})
                = IF ObjCCategoryDecls[k].protocols[i].isObjC THEN 1 ELSE 0
    /\ \A n \in 1..Len(CategoryInitializerBody) :
         CategoryInitializerBody[n].callee
           \in {"class_replaceMethod", "class_addProtocol"} =>
             \E k \in 1..Len(ObjCCategoryDecls) :
               /\ CategoryInitializerBody[n].ext = ObjCCategoryDecls[k].id
               /\ CategoryInitializerBody[n].index \in
                    1..(IF CategoryInitializerBody[n].role = "protocol"
                        THEN Len(ObjCCategoryDecls[k].protocols)
                        ELSE Len(ObjCCategoryDecls[k].members))

\* Two extensions were synthesized; the second has a settable property
\* followed by a read-only subscript and conforms to a protocol that only
\* inherits from an Objective-C one.
C23_Witness ==
  /\ pass.op = "emitObjCCategoryInitializer"
  /\ Len(ObjCCategoryDecls) = 2
  /\ LET e == ObjCCategoryDecls[2] IN
       /\ Len(e.members) = 2
       /\ e.members[1].dk = "Var" /\ e.members[1].objc /\ e.members[1].isSettable
       /\ e.members[2].dk = "Subscript" /\ e.members[2].objc
       /\ ~e.members[2].isSettable
       /\ Len(e.protocols) = 1 /\ ~e.protocols[1].isObjC
       /\ Len(e.protocols[1].inherited) = 1
  /\ Cardinality(ReplaceMethodCalls) = 4
  /\ AddProtocolCalls = {}

----------------------------------------------------------------------------
(* Properties of the synthesis passes, checked under UnitSpec               *)

\* The instructions of main, and where it calls a function.
MainBody ==
  LET fs == getFunctionNamed(Functions, "main")
  IN IF fs = {} THEN <<>> ELSE (CHOOSE f \in fs : TRUE).blocks[1]
CallsOf(callee) ==
  {n \in 1..Len(MainBody) :
     MainBody[n].op = "call" /\ MainBody[n].callee = callee}
\* The last step emitted a file, an entry-point file, a library file.
FileEmitted == pass.op = "emitSourceFile"
EntryPointEmitted == FileEmitted /\ pass.SF.Kind \in {"Main", "REPL"}
LibraryEmitted == FileEmitted /\ pass.SF.Kind \notin {"Main", "REPL"}
InteropSetup == Opts.ObjCInterop /\ Opts.UseJIT
\* The entries of the constructor tables naming a function.
CtorEntries(fn) ==
  {<<i, j>> \in (1..Len(Globals)) \X (1..1) :
     Globals[i].name = "llvm.global_ctors" /\ Globals[i].elts[j].fn = fn}

\* C24: main calls the class initializer at most once and the category
\* initializer at most once, no other function calls them, and the call
\* of the class initializer comes before the call of the category
\* initializer; both calls are there when main is synthesized with
\* interop setup and both pending lists non-empty.
C24_LoadOrder ==
  /\ Cardinality(CallsOf("_swift_initObjCClasses")) <= 1
  /\ Cardinality(CallsOf("_swift_initObjCCategories")) <= 1
  /\ \A i \in CallsOf("_swift_initObjCClasses") :
       \A j \in CallsOf("_swift_initObjCCategories") : i < j
  /\ \A f \in Functions : f.name # "main" =>
       \A b \in 1..Len(f.blocks) : \A n \in 1..Len(f.blocks[b]) :
         f.blocks[b][n].callee
           \notin {"_swift_initObjCClasses", "_swift_initObjCCategories"}
  /\ (EntryPointEmitted /\ InteropSetup
        /\ ObjCClasses # <<>> /\ ObjCCategoryDecls # <<>>) =>
       /\ CallsOf("_swift_initObjCClasses") # {}
       /\ CallsOf("_swift_initObjCCategories") # {}

\* main was synthesized with two classes and a category pending.
C24_Witness ==
  /\ EntryPointEmitted /\ InteropSetup
  /\ Len(ObjCClasses) = 2 /\ Len(ObjCCategoryDecls) = 1
  /\ CallsOf("_swift_initObjCClasses") # {}
  /\ CallsOf("_swift_initObjCCategories") # {}

\* One sequence is the beginning of another.
IsPrefix(xs, ys) ==
  /\ Len(xs) <= Len(ys)
  /\ \A i \in 1..Len(xs) : xs[i] = ys[i]
PendingLists == <<ObjCClasses, ObjCCategories, ObjCCategoryDecls>>

\* C25 as stated: once emitGlobalLists has read the pending lists they are
\* empty.
C25_Original ==
  pass.finished =>
    /\ ObjCClasses = <<>>
    /\ ObjCCategories = <<>>
    /\ ObjCCategoryDecls = <<>>

\* C25: the pending lists only grow at their end: the category lists in
\* the declaration traversal of emitSourceFile and nowhere else, the class
\* list in addObjCClass and nowhere else; the synthesis of main and
\* emitGlobalLists read them and leave them as they are, so they are never
\* emptied.
C25_PendingListsOnlyGrow ==
  [][/\ IsPrefix(ObjCClasses, ObjCClasses')
     /\ IsPrefix(ObjCCategories, ObjCCategories')
     /\ IsPrefix(ObjCCategoryDecls, ObjCCategoryDecls')
     /\ pass'.op # "emitSourceFile" =>
          UNCHANGED <<ObjCCategories, ObjCCategoryDecls>>
     /\ pass'.op # "addObjCClass" => UNCHANGED ObjCClasses
     /\ pass'.op = "emitGlobalLists" => UNCHANGED PendingLists
    ]_vars

\* emitGlobalLists has run on two classes and a category, after main
\* announced them, and the lists still hold them.
C25_Witness ==
  /\ pass.finished
  /\ Len(ObjCClasses) = 2
  /\ Len(ObjCCategoryDecls) = 1 /\ Len(ObjCCategories) = 1
  /\ CallsOf("_swift_initObjCClasses") # {}
  /\ CallsOf("_swift_initObjCCategories") # {}
  /\ \E i \in 1..Len(Globals) : Globals[i].name = "objc_categories"

\* What emitSourceFile left for the file emitted last: its initializer,
\* its entries in the constructor tables, the top-level function.
InitializerLeft == getFunctionNamed(Functions, initFnName(pass.SF)) # {}
TopLevelLeft == getFunctionNamed(Functions, "top_level_code") # {}
EntriesLeft == CtorEntries(initFnName(pass.SF))
ElisionRule ==
  /\ pass.topLevel = "trivial" =>
       /\ EntriesLeft = {}
       /\ ~InitializerLeft
       /\ ~TopLevelLeft
  /\ pass.topLevel = "nontrivial" =>
       /\ Cardinality(EntriesLeft) = 1
       /\ \A e \in EntriesLeft : Globals[e[1]].elts[e[2]].priority = 1

\* C26 as stated: the elision rule for every file, whatever its kind.
C26_Original == FileEmitted => ElisionRule

\* C26: after emitSourceFile on a file that is neither Main nor REPL: when
\* top_level_code is one block holding one instruction, the file has no
\* entry in a constructor table and neither its initializer nor
\* top_level_code is left in the module; when top_level_code is anything
\* else, the file has exactly one entry, of priority 1, naming its
\* initializer, which is in the module; when there is no top_level_code
\* the file has no entry and no initializer.
C26_InitializerElision ==
  LibraryEmitted =>
    /\ ElisionRule
    /\ pass.topLevel = "nontrivial" => InitializerLeft /\ TopLevelLeft
    /\ pass.topLevel = "absent" => EntriesLeft = {} /\ ~InitializerLeft

\* A library file found a lone return in top_level_code; both functions
\* are gone and there is no constructor table.
C26_Witness ==
  /\ LibraryEmitted
  /\ pass.topLevel = "trivial"
  /\ ~TopLevelLeft /\ ~InitializerLeft /\ Globals = <<>>

\* C27: after emitSourceFile on a Main or REPL file, the file has no
\* initializer and no entry in a constructor table and top_level_code is
\* what it was, trivial or not; main is: the stores of argc, then of argv,
\* the call of the class initializer (with interop setup and classes
\* pending), the call of the category initializer (with interop setup and
\* categories pending), the call of top_level_code (when there is one),
\* the return of 0.
C27_EntryPointUnits ==
  EntryPointEmitted =>
    /\ ~InitializerLeft
    /\ EntriesLeft = {}
    /\ topLevelOf(Functions) = pass.topLevel
    /\ MainBody =
         <<Call("_TFSsa6C_ARGCVSs5Int32"), Store("argc"),
           Call("_TFSsa6C_ARGVGVSs13UnsafePointerVSs7CString_"), Store("argv")>>
         \o (IF InteropSetup /\ ObjCClasses # <<>>
             THEN <<Call("_swift_initObjCClasses")>> ELSE <<>>)
         \o (IF InteropSetup /\ ObjCCategoryDecls # <<>>
             THEN <<Call("_swift_initObjCCategories")>> ELSE <<>>)
         \o (IF pass.topLevel # "absent"
             THEN <<Call("top_level_code")>> ELSE <<>>)
         \o <<Ret("0")>>

\* A REPL file with executable top-level code was emitted with a class
\* and a category pending.
C27_Witness ==
  /\ EntryPointEmitted /\ pass.SF.Kind = "REPL"
  /\ pass.topLevel = "nontrivial"
  /\ InteropSetup /\ ObjCClasses # <<>> /\ ObjCCategoryDecls # <<>>
  /\ Len(MainBody) = 8

\* The arrays of a name emitGlobalLists has left in the module.
ArraysNamed(name) == {i \in 1..Len(Globals) : Globals[i].name = name}
Pointers(list) == [i \in 1..Len(list) |-> [value |-> list[i], ty |-> "Int8PtrTy"]]
ArrayFor(name, list) ==
  IF list = <<>> THEN ArraysNamed(name) = {}
  ELSE /\ Cardinality(ArraysNamed(name)) = 1
       /\ \A i \in ArraysNamed(name) : Globals[i].elts = Pointers(list)

\* C29: after emitGlobalLists the module holds, for each of the class
\* list, the category list and the list of used globals that is not
\* empty, one array of its elements in order: objc_classes,
\* objc_categories, llvm.used; objc_non_lazy_classes holds the elements of
\* objc_classes in the same order; an empty list has no array.
C29_GlobalLists ==
  pass.op = "emitGlobalLists" =>
    /\ ArrayFor("objc_classes", ObjCClasses)
    /\ ArrayFor("objc_categories", ObjCCategories)
    /\ ArrayFor("objc_non_lazy_classes", ObjCClasses)
    /\ ArrayFor("llvm.used", LLVMUsed)
    /\ \A i \in ArraysNamed("objc_classes") :
         \A j \in ArraysNamed("objc_non_lazy_classes") :
           Globals[i].elts = Globals[j].elts /\ i < j

\* Two classes and no category: three arrays, none for the categories.
C29_Witness ==
  /\ pass.op = "emitGlobalLists"
  /\ Len(ObjCClasses) = 2 /\ ObjCClasses[1] # ObjCClasses[2]
  /\ ObjCCategories = <<>>
  /\ ArraysNamed("objc_categories") = {}
  /\ ArraysNamed("objc_non_lazy_classes") # {}
  /\ ArraysNamed("llvm.used") # {}

----------------------------------------------------------------------------
(* The two category lists, checked under UnitSpec                           *)

\* ObjCCategories and ObjCCategoryDecls have one length, and the data at
\* an index is the data of the extension at that index.
CategoryListsCorrespond(cats, catDecls) ==
  /\ Len(cats) = Len(catDecls)
  /\ \A i \in 1..Len(cats) : cats[i] = CategoryData(catDecls[i])

\* The extensions among the declarations of a file.
ExtensionsOf(SF) ==
  {i \in 1..Len(SF.Decls) : SF.Decls[i].dk = "Extension"}

\* C35: ObjCCategories and ObjCCategoryDecls have the same length and
\* correspond index by index at every moment; a step keeps what the lists
\* held, appends at most one entry for each extension it emits, and the
\* entries it appends are of different extensions.
C35_CategoryListsInStep ==
  /\ CategoryListsCorrespond(ObjCCategories, ObjCCategoryDecls)
  /\ [][/\ CategoryListsCorrespond(ObjCCategories', ObjCCategoryDecls')
        /\ IsPrefix(ObjCCategoryDecls, ObjCCategoryDecls')
        /\ IsPrefix(ObjCCategories, ObjCCategories')
        /\ pass'.op = "emitSourceFile" =>
             Len(ObjCCategoryDecls') - Len(ObjCCategoryDecls)
               <= Cardinality(ExtensionsOf(pass'.SF))
        /\ pass'.op # "emitSourceFile" =>
             UNCHANGED <<ObjCCategories, ObjCCategoryDecls>>
        /\ \A i, j \in 1..Len(ObjCCategoryDecls') :
             (Len(ObjCCategoryDecls) < i /\ i < j) =>
               ObjCCategoryDecls'[i] # ObjCCategoryDecls'[j]
       ]_vars

\* Two files have each left a category in the lists.
C35_Witness ==
  /\ Len(ObjCCategoryDecls) = 2
  /\ Len(ObjCCategories) = 2
  /\ ObjCCategories[1] # ObjCCategories[2]
  /\ pass.files = 2

----------------------------------------------------------------------------
(* The retention array, checked under UnitSpec                              *)

\* The lists emitGlobalLists emits with internal linkage that are not
\* empty, as the globals made for them, in the order of emission.
InternalLists ==
  LET entry(list, name) ==
        IF list = <<>> THEN <<>> ELSE <<GlobalValue(name, FALSE)>>
  IN entry(ObjCClasses, "objc_classes")
       \o entry(ObjCCategories, "objc_categories")
       \o entry(ObjCClasses, "objc_non_lazy_classes")

\* What a run of emitGlobalLists does to the retention list and the
\* retention array: the list gets the internal lists after what
\* addUsedGlobal was given before, never llvm.used itself, and the array,
\* made when the list is not empty, is the last global of the module and
\* holds the list.
RetentionStep ==
  (pass'.op = "emitGlobalLists" /\ ~pass.finished) =>
    /\ LLVMUsed' = LLVMUsed \o InternalLists
    /\ \A i \in 1..Len(LLVMUsed') : LLVMUsed'[i].name # "llvm.used"
    /\ LLVMUsed' # <<>> =>
         /\ ArraysNamed("llvm.used")' = {Len(Globals')}
         /\ Globals'[Len(Globals')].elts = Pointers(LLVMUsed')
         /\ Globals'[Len(Globals')].linkage = "appending"
         /\ Len(Globals') > Len(Globals)
    /\ LLVMUsed' = <<>> => Globals' = Globals

----------------------------------------------------------------------------
(* Safety of the elision, checked under UnitSpec                            *)

\* The last step emitted a file and took the branch that erases the
\* initializer and top_level_code.
ElisionTaken == LibraryEmitted /\ pass.topLevel = "trivial"

\* C37: after emitSourceFile has erased the initializer of the file and
\* top_level_code, the file is neither Main nor REPL, both functions are
\* gone, and nothing in the module refers to either of them: no entry of
\* a constructor table names one, and main calls neither.
C37_ElisionSafe ==
  (FileEmitted /\ pass.topLevel = "trivial" /\ ~TopLevelLeft) =>
    /\ pass.SF.Kind \notin {"Main", "REPL"}
    /\ ~InitializerLeft
    /\ CtorEntries(initFnName(pass.SF)) = {}
    /\ CtorEntries("top_level_code") = {}
    /\ CallsOf(initFnName(pass.SF)) = {}
    /\ CallsOf("top_level_code") = {}

\* The part of C37 that holds: the erasure happens only for a file that
\* is neither Main nor REPL, and leaves no constructor-table entry naming
\* an erased function.
ElisionLeavesNoEntry ==
  ElisionTaken =>
    /\ ~TopLevelLeft /\ ~InitializerLeft
    /\ CtorEntries(initFnName(pass.SF)) = {}
    /\ CtorEntries("top_level_code") = {}

\* main, emitted for an earlier file, calls top_level_code, which the
\* emission of a later file has erased.
DanglingCallFromMain ==
  /\ ElisionTaken
  /\ CallsOf("top_level_code") # {}
  /\ ~TopLevelLeft

----------------------------------------------------------------------------
(* Global strings, checked under StringSpec                                 *)

\* The strings asked for so far.
StringsAsked == {asked[i].data : i \in 1..Len(asked)}

\* C38: after any sequence of calls of getAddrOfGlobalString, two calls
\* with equal data have returned the same address, two calls with
\* different data different ones, the module holds as many string globals
\* as different strings were asked for, and the address returned for a
\* string is that of the first element of a private constant global
\* holding the string and a trailing null.
C38_OneGlobalPerString ==
  /\ \A i, j \in 1..Len(asked) :
       (asked[i].data = asked[j].data) <=> (asked[i].address = asked[j].address)
  /\ Len(StringGlobals) = Cardinality(StringsAsked)
  /\ \A i \in 1..Len(asked) :
       LET address == asked[i].address IN
       /\ address.global \in 1..Len(StringGlobals)
       /\ address.indices = <<0, 0>>
       /\ StringGlobals[address.global].init = getString(asked[i].data)
       /\ StringGlobals[address.global].linkage = "private"
       /\ GlobalStrings[asked[i].data] = address
  /\ \A data \in StringData \ StringsAsked : GlobalStrings[data] = NullAddress

\* A string with an embedded null was asked for twice with the empty
\* string in between: two globals.
C38_Witness ==
  /\ Len(asked) = 3
  /\ asked[1].data = <<"nul">>
  /\ asked[2].data = <<>>
  /\ asked[3].data = <<"nul">>
  /\ asked[1].address = asked[3].address
  /\ Len(StringGlobals) = 2

----------------------------------------------------------------------------
(* Name lookup requests, checked under LookupSpec                           *)

\* C39: ExtendedNominalRequest::getCachedResult returns a value exactly
\* when the extension holds a nominal that is not null, and then that
\* nominal; cacheResult with null leaves what the extension holds as it
\* is, and cacheResult with a nominal stores it; no step makes a nominal
\* held by an extension null again.
C39_NullIsCacheMiss ==
  /\ [](lookup.op = "ExtendedNominalRequest::getCachedResult" =>
          LET ext == lookup.subject IN
          /\ lookup.result.hasValue <=> ExtendedNominal[ext] # nullptr
          /\ lookup.result.hasValue =>
               /\ lookup.result.value = ExtendedNominal[ext]
               /\ lookup.given[ext] # <<>>)
  /\ [][/\ \A ext \in RequestExtensions :
             ExtendedNominal[ext] # nullptr => ExtendedNominal'[ext] # nullptr
        /\ (lookup' # lookup /\ lookup'.op = "ExtendedNominalRequest::cacheResult") =>
             IF lookup'.value = nullptr
             THEN ExtendedNominal' = ExtendedNominal
             ELSE ExtendedNominal' =
                    [ExtendedNominal EXCEPT ![lookup'.subject] = lookup'.value]
       ]_vars

\* The extension still has its nominal after a null was cached for it.
C39_Witness ==
  /\ lookup.op = "ExtendedNominalRequest::getCachedResult"
  /\ lookup.given[lookup.subject] = <<nullptr>>
  /\ lookup.result = Some("NominalA")

\* C40: SuperclassDeclRequest::getCachedResult for a class or a protocol
\* returns no value before cacheResult was called for it, and afterwards
\* the value cacheResult was given last, null included; for another
\* nominal it returns no value; cacheResult for another nominal changes
\* nothing.
C40_SuperclassRoundTrip ==
  /\ [](lookup.op = "SuperclassDeclRequest::getCachedResult" =>
          LET nominalDecl == lookup.subject
              given == lookup.given[nominalDecl]
          IN IF HasSuperclassDecl(nominalDecl) /\ given # <<>>
             THEN lookup.result = Some(given[1])
             ELSE lookup.result = None)
  /\ [][(/\ lookup' # lookup
         /\ lookup'.op = "SuperclassDeclRequest::cacheResult"
         /\ ~HasSuperclassDecl(lookup'.subject)) =>
          UNCHANGED <<LazySemanticInfo, ExtendedNominal>>
       ]_vars

\* A null superclass cached for a protocol is what is returned for it,
\* after a superclass was cached for it before.
C40_Witness ==
  /\ lookup.op = "SuperclassDeclRequest::getCachedResult"
  /\ lookup.subject.dk = "Protocol"
  /\ lookup.given[lookup.subject] = <<nullptr>>
  /\ lookup.result = Some(nullptr)
  /\ lookup.result # None

====
